---- MODULE Spec2Model ----
(***************************************************************************)
(* Model of the image-to-PDF converter component                           *)
(* (convertor/src/components/ImageToPdf.tsx): the session state held in    *)
(* React state (files, previews, sort direction, layout settings), the     *)
(* handlers that change it, and the generatePDF run with its layout        *)
(* arithmetic.  JavaScript numbers are IEEE-754 doubles; the layout        *)
(* arithmetic is modelled bit-exactly on 53-bit significands held as       *)
(* little-endian sequences of 15-bit limbs.                                *)
(***************************************************************************)
EXTENDS Integers, Sequences, FiniteSets, TLC

(***************************************************************************)
(* TLC hands the arguments of an operator and the definitions of a LET on  *)
(* unevaluated and may evaluate them again at every use.  Let1, Let2, Let4  *)
(* apply F to the values of their arguments instead: each argument is      *)
(* evaluated once, however often F uses its parameter.                     *)
(***************************************************************************)
Let1(a, F(_)) == CHOOSE r \in {F(x) : x \in {a}} : TRUE
Let2(a, b, F(_, _)) == CHOOSE r \in {F(x, y) : x \in {a}, y \in {b}} : TRUE
Let4(a, b, c, d, F(_, _, _, _)) ==
  CHOOSE r \in {F(x, y, z, u) : x \in {a}, y \in {b}, z \in {c}, u \in {d}} : TRUE

(***************************************************************************)
(* Natural numbers of arbitrary size: little-endian limb sequences in base *)
(* 2^15, without leading zero limbs; <<>> is zero.                         *)
(***************************************************************************)
Base == 32768

\* a without its leading zero limbs
BNorm(a) ==
  Let1(a, LAMBDA x :
    LET nz == {i \in 1..Len(x) : x[i] # 0}
    IN  IF nz = {} THEN <<>>
        ELSE SubSeq(x, 1, CHOOSE i \in nz : \A j \in nz : j <= i))

RECURSIVE BFromInt(_)
BFromInt(n) ==
  IF n = 0 THEN <<>> ELSE <<n % Base>> \o BFromInt(n \div Base)

RECURSIVE BAddC(_, _, _)
BAddC(a, b, c) ==
  IF a = <<>> /\ b = <<>> THEN (IF c = 0 THEN <<>> ELSE <<c>>)
  ELSE LET x == (IF a = <<>> THEN 0 ELSE a[1]) + (IF b = <<>> THEN 0 ELSE b[1]) + c
       IN  <<x % Base>> \o BAddC(IF a = <<>> THEN a ELSE Tail(a),
                                 IF b = <<>> THEN b ELSE Tail(b), x \div Base)

BAdd(a, b) == Let2(a, b, LAMBDA x, y : BAddC(x, y, 0))

RECURSIVE BSubB(_, _, _)
BSubB(a, b, c) ==
  IF a = <<>> THEN <<>>
  ELSE LET x == a[1] - (IF b = <<>> THEN 0 ELSE b[1]) - c
       IN  <<x % Base>> \o BSubB(Tail(a), IF b = <<>> THEN b ELSE Tail(b),
                                 IF x < 0 THEN 1 ELSE 0)

\* a - b for a >= b
BSub(a, b) == Let2(a, b, LAMBDA x, y : BNorm(BSubB(x, y, 0)))

RECURSIVE BCmpAt(_, _, _)
BCmpAt(a, b, i) ==
  IF i = 0 THEN 0
  ELSE IF a[i] < b[i] THEN -1
  ELSE IF a[i] > b[i] THEN 1
  ELSE BCmpAt(a, b, i - 1)

\* -1, 0 or 1 as a < b, a = b, a > b
BCmp(a, b) ==
  Let2(a, b, LAMBDA x, y :
    IF Len(x) < Len(y) THEN -1
    ELSE IF Len(x) > Len(y) THEN 1
    ELSE BCmpAt(x, y, Len(x)))

RECURSIVE BMulLimb(_, _, _)
\* a * d + c for limbs d and c
BMulLimb(a, d, c) ==
  IF a = <<>> THEN (IF c = 0 THEN <<>> ELSE <<c>>)
  ELSE LET x == a[1] * d + c
       IN  <<x % Base>> \o BMulLimb(Tail(a), d, x \div Base)

RECURSIVE BMulRec(_, _)
BMulRec(a, b) ==
  IF b = <<>> THEN <<>>
  ELSE BAdd(BMulLimb(a, b[1], 0), <<0>> \o BMulRec(a, Tail(b)))

BMul(a, b) ==
  Let2(a, b, LAMBDA x, y :
    IF x = <<>> \/ y = <<>> THEN <<>> ELSE BNorm(BMulRec(x, y)))

RECURSIVE Pow2(_)
Pow2(k) == IF k = 0 THEN 1 ELSE 2 * Pow2(k - 1)

RECURSIVE Zeros(_)
Zeros(n) == IF n = 0 THEN <<>> ELSE <<0>> \o Zeros(n - 1)

\* a * 2^k
BShl(a, k) ==
  IF a = <<>> THEN a
  ELSE Zeros(k \div 15) \o BMulLimb(a, Pow2(k % 15), 0)

RECURSIVE BDivLimb(_, _, _)
\* floor(a / d) for one limb d, working down from the top limb with remainder r
BDivLimb(a, d, r) ==
  IF a = <<>> THEN <<>>
  ELSE LET x == r * Base + a[Len(a)]
       IN  BDivLimb(SubSeq(a, 1, Len(a) - 1), d, x % d) \o <<x \div d>>

\* floor(a / 2^k)
BShr(a, k) ==
  IF Len(a) <= k \div 15 THEN <<>>
  ELSE BNorm(BDivLimb(SubSeq(a, (k \div 15) + 1, Len(a)), Pow2(k % 15), 0))

RECURSIVE IntBits(_)
IntBits(n) == IF n = 0 THEN 0 ELSE 1 + IntBits(n \div 2)

\* number of significant bits of a
BitLen(a) == IF a = <<>> THEN 0 ELSE 15 * (Len(a) - 1) + IntBits(a[Len(a)])

BIsOdd(a) == a # <<>> /\ a[1] % 2 = 1

RECURSIVE BToInt(_)
\* the integer a stands for
BToInt(a) == IF a = <<>> THEN 0 ELSE a[1] + Base * BToInt(Tail(a))

(***************************************************************************)
(* IEEE-754 binary64 values in the normal range: [s, m, e] denotes         *)
(* s * m * 2^e with s in {1, -1} and m either <<>> (zero) or a 53-bit      *)
(* significand.  Every operation rounds to nearest, ties to even, as the   *)
(* JavaScript Number operators do.                                         *)
(***************************************************************************)
Prec == 53

FZero == [s |-> 1, m |-> <<>>, e |-> 0]

\* FRound for M of n > Prec bits: the sh = n - Prec low bits are cut off and
\* decide, with sticky, whether the rest q is rounded up
FRoundCut(sgn, M, E, sticky) ==
  Let1(BitLen(M) - Prec, LAMBDA sh :
    Let1(BShr(M, sh), LAMBDA q :
      Let1(BCmp(BSub(M, BShl(q, sh)), BShl(<<1>>, sh - 1)), LAMBDA c :
        Let1(IF c > 0 \/ (c = 0 /\ (sticky \/ BIsOdd(q))) THEN BAdd(q, <<1>>) ELSE q,
             LAMBDA q1 :
               IF BitLen(q1) > Prec
               THEN [s |-> sgn, m |-> BShr(q1, 1), e |-> E + sh + 1]
               ELSE [s |-> sgn, m |-> q1, e |-> E + sh]))))

\* The double nearest to sgn * M * 2^E (+ a positive fraction of the last
\* bit of M when sticky), ties to even.
FRound(sgn, M, E, sticky) ==
  Let4(sgn, M, E, sticky, LAMBDA x, y, z, u :
    Let1(BitLen(y), LAMBDA n :
      IF n = 0 THEN FZero
      ELSE IF n <= Prec THEN [s |-> x, m |-> BShl(y, Prec - n), e |-> z - (Prec - n)]
      ELSE FRoundCut(x, y, z, u)))

\* Number(n) for an integer n
FInt(n) == FRound(IF n < 0 THEN -1 ELSE 1, BFromInt(IF n < 0 THEN -n ELSE n), 0, FALSE)

FNeg(a) == [a EXCEPT !.s = -a.s]

\* a * b
FMul(a, b) ==
  Let2(a, b, LAMBDA x, y : FRound(x.s * y.s, BMul(x.m, y.m), x.e + y.e, FALSE))

Limb(a, i) == IF i <= Len(a) THEN a[i] ELSE 0

RECURSIVE DivCorrect(_, _, _)
\* raises an under-estimated quotient digit q (with rem = dividend - q * d)
\* until the remainder is below d: <<digit, remainder>>
DivCorrect(q, rem, d) ==
  IF BCmp(rem, d) >= 0 THEN DivCorrect(q + 1, BSub(rem, d), d) ELSE <<q, rem>>

\* One base-2^15 digit of long division: for r < d, with d a 53-bit
\* significand, <<floor(r * 2^15 / d), r * 2^15 mod d>>.  The digit is first
\* estimated from below on the two top limbs of r and d.
DivDigit(r, d) ==
  Let1(((Limb(r, 4) * Base + Limb(r, 3)) * 256)
         \div (((Limb(d, 4) * Base + Limb(d, 3)) \div 128) + 1),
       LAMBDA qhat :
         DivCorrect(qhat,
                    BSub(IF r = <<>> THEN r ELSE <<0>> \o r, BMulLimb(d, qhat, 0)),
                    d))

\* the four digits after the leading bit one of the quotient of significand
\* r0 by significand d, r0 being what the leading bit left: <<digits,
\* remainder>>, the digits little-endian
DivDigits(r0, d, one) ==
  Let1(DivDigit(r0, d), LAMBDA d1 :
    Let1(DivDigit(d1[2], d), LAMBDA d2 :
      Let1(DivDigit(d2[2], d), LAMBDA d3 :
        Let1(DivDigit(d3[2], d), LAMBDA d4 :
          <<BNorm(<<d4[1], d3[1], d2[1], d1[1], one>>), d4[2]>>))))

\* a / b for b # 0: 60 fraction bits of the quotient of the significands,
\* then rounded
FDiv(a, b) ==
  Let2(a, b, LAMBDA x, y :
    IF x.m = <<>> THEN FZero
    ELSE Let1(BCmp(x.m, y.m) >= 0, LAMBDA ge :
           Let1(DivDigits(IF ge THEN BSub(x.m, y.m) ELSE x.m, y.m, IF ge THEN 1 ELSE 0),
                LAMBDA qr : FRound(x.s * y.s, qr[1], x.e - y.e - 60, qr[2] # <<>>))))

\* -1, 0, 1 as |a| < |b|, |a| = |b|, |a| > |b|
FCmpAbs(a, b) ==
  IF a.m = <<>> /\ b.m = <<>> THEN 0
  ELSE IF a.m = <<>> THEN -1
  ELSE IF b.m = <<>> THEN 1
  ELSE IF a.e < b.e THEN -1
  ELSE IF a.e > b.e THEN 1
  ELSE BCmp(a.m, b.m)

FSign(a) == IF a.m = <<>> THEN 0 ELSE a.s

\* -1, 0, 1 as a < b, a = b, a > b
FCmp(a, b) ==
  Let2(a, b, LAMBDA x, y :
    IF FSign(x) # FSign(y) THEN (IF FSign(x) < FSign(y) THEN -1 ELSE 1)
    ELSE FSign(x) * FCmpAbs(x, y))

FLt(a, b) == FCmp(a, b) < 0
FLe(a, b) == FCmp(a, b) <= 0
FGt(a, b) == FCmp(a, b) > 0
FGe(a, b) == FCmp(a, b) >= 0
FEq(a, b) == FCmp(a, b) = 0

\* a + b for a, b # 0, their significands am, bm aligned at exponent emin
FAddAligned(a, b, am, bm, emin) ==
  IF a.s = b.s THEN FRound(a.s, BAdd(am, bm), emin, FALSE)
  ELSE Let1(BCmp(am, bm), LAMBDA c :
         IF c = 0 THEN FZero
         ELSE IF c > 0 THEN FRound(a.s, BSub(am, bm), emin, FALSE)
         ELSE FRound(b.s, BSub(bm, am), emin, FALSE))

\* a + b
FAdd(a, b) ==
  Let2(a, b, LAMBDA x, y :
    IF x.m = <<>> THEN y
    ELSE IF y.m = <<>> THEN x
    ELSE Let1(IF x.e < y.e THEN x.e ELSE y.e, LAMBDA emin :
           Let2(BShl(x.m, x.e - emin), BShl(y.m, y.e - emin), LAMBDA am, bm :
             FAddAligned(x, y, am, bm, emin))))

\* a - b
FSub(a, b) == FAdd(a, FNeg(b))

\* Math.min / Math.max
FMin2(a, b) == Let2(a, b, LAMBDA x, y : IF FLe(x, y) THEN x ELSE y)
FMax2(a, b) == Let2(a, b, LAMBDA x, y : IF FGe(x, y) THEN x ELSE y)
FMin3(a, b, c) == FMin2(FMin2(a, b), c)

\* The literal n/10 written with one decimal (215.9, 25.4): the double
\* nearest to it, which is the correctly rounded quotient of two exact
\* integers.
FTenths(n) == FDiv(FInt(n), FInt(10))

\* Math.round(a): the integer nearest to a, the one towards +Infinity of two
\* equally near
MathRound(a) ==
  Let1(a, LAMBDA x :
    IF x.m = <<>> THEN 0
    ELSE IF x.e >= 0 THEN x.s * BToInt(BShl(x.m, x.e))
    ELSE IF x.s = 1
    THEN BToInt(BShr(BAdd(x.m, BShl(<<1>>, (-x.e) - 1)), -x.e))
    ELSE -BToInt(BShr(BSub(BAdd(x.m, BShl(<<1>>, (-x.e) - 1)), <<1>>), -x.e)))


(***************************************************************************)
(* Bounds of the model.                                                    *)
(***************************************************************************)
\* Spec: object URLs created in one behaviour (so also the longest
\* collection), files offered to one handleFiles call, handleFiles timeouts
\* pending at once
MaxUrls == 3
MaxPick == 2
MaxPending == 2
\* the same three limits in SpecAdd
MaxAddUrls == 3
MaxAddPick == 2
MaxAddPending == 1
\* the same three limits in SpecGen, and the generatePDF runs started there
MaxGenUrls == 2
MaxGenPick == 1
MaxGenPending == 1
MaxGenRuns == 1
\* the limits on URLs, picked files, pending timeouts and runs in SpecUi
MaxUiUrls == 2
MaxUiPick == 1
MaxUiPending == 1
MaxUiRuns == 2
\* the limits on URLs, picked files and pending timeouts in SpecView
MaxViewUrls == 3
MaxViewPick == 1
MaxViewPending == 1
\* the limits on URLs, picked files and runs in SpecApp
MaxAppUrls == 3
MaxAppPick == 2
MaxAppRuns == 1
\* the limits on URLs, picked files, pending timeouts and runs in SpecEdit
MaxEditUrls == 1
MaxEditPick == 1
MaxEditPending == 1
MaxEditRuns == 1
\* the limits on URLs, picked files and pending timeouts in SpecConfig
MaxCfgUrls == 1
MaxCfgPick == 1
MaxCfgPending == 1
\* SpecLayout: generatePDF runs started; the sides of the decoded images
\* are multiples of ImgStep pixels, MaxImgSteps + 1 steps for both sides
\* together at most
MaxLayoutRuns == 1
MaxImgSteps == 2
ImgStep == 640

(***************************************************************************)
(* File objects.  A File has a name, a MIME type and, once decoded by an   *)
(* Image element, the natural pixel size of its content.                   *)
(***************************************************************************)
File(n, t, w, h) == [name |-> n, type |-> t, w |-> w, h |-> h]

FileA == File("a.jpg", "image/jpeg", 960, 1280)
FileB == File("b.png", "image/png", 320, 320)
FileC == File("c.gif", "image/gif", 1280, 640)
FileD == File("D.webp", "image/webp", 640, 960)
FileN == File("n.pdf", "application/pdf", 0, 0)

\* what the file picker or a drop can deliver
Files == {FileA, FileB, FileC, FileD, FileN}
SessionFiles == {FileA, FileB, FileC}
GenFiles == {FileA, FileC}

RECURSIVE SeqsUpTo(_, _)
\* the sequences over S of length 0..n
SeqsUpTo(S, n) ==
  IF n = 0 THEN {<<>>}
  ELSE LET T == SeqsUpTo(S, n - 1)
       IN  T \cup {Append(t, x) : t \in {u \in T : Len(u) = n - 1}, x \in S}

\* the file lists one handleFiles call can receive
Picks == SeqsUpTo(SessionFiles, MaxPick) \ {<<>>}
AddPicks == SeqsUpTo(Files, MaxAddPick) \ {<<>>}
GenPicks == SeqsUpTo(GenFiles, MaxGenPick) \ {<<>>}
CfgPicks == SeqsUpTo(GenFiles, MaxCfgPick) \ {<<>>}
UiPicks == SeqsUpTo(GenFiles, MaxUiPick) \ {<<>>}
ViewPicks == SeqsUpTo(SessionFiles, MaxViewPick) \ {<<>>}
AppPicks == SeqsUpTo(SessionFiles, MaxAppPick) \ {<<>>}
EditPicks == SeqsUpTo(GenFiles, MaxEditPick) \ {<<>>}

(***************************************************************************)
(* String.prototype.localeCompare on file names, under the root collation  *)
(* of the runtime: names are compared letter by letter ignoring case       *)
(* (punctuation before letters, a shorter prefix first); only when that    *)
(* finds no difference does case decide, lower case first.                 *)
(***************************************************************************)
NameChars ==
  [n \in {f.name : f \in Files} |->
     CASE n = "a.jpg"  -> <<"a", ".", "j", "p", "g">>
       [] n = "b.png"  -> <<"b", ".", "p", "n", "g">>
       [] n = "c.gif"  -> <<"c", ".", "g", "i", "f">>
       [] n = "D.webp" -> <<"D", ".", "w", "e", "b", "p">>
       [] n = "n.pdf"  -> <<"n", ".", "p", "d", "f">>]

LowerCase == <<".", "a", "b", "c", "d", "e", "f", "g", "h", "i", "j", "k", "l", "m",
               "n", "o", "p", "q", "r", "s", "t", "u", "v", "w", "x", "y", "z">>
UpperCase == <<".", "A", "B", "C", "D", "E", "F", "G", "H", "I", "J", "K", "L", "M",
               "N", "O", "P", "Q", "R", "S", "T", "U", "V", "W", "X", "Y", "Z">>

IsUpper(c) == \E i \in 2..Len(UpperCase) : UpperCase[i] = c

\* primary collation weight of a character: its alphabet position, "." first
Primary(c) ==
  IF IsUpper(c) THEN CHOOSE i \in 2..Len(UpperCase) : UpperCase[i] = c
  ELSE CHOOSE i \in 1..Len(LowerCase) : LowerCase[i] = c

\* tertiary collation weight: lower case before upper case
Tertiary(c) == IF IsUpper(c) THEN 1 ELSE 0

RECURSIVE LexCmp(_, _)
\* lexicographic comparison of two weight sequences: -1, 0 or 1
LexCmp(u, v) ==
  IF u = <<>> /\ v = <<>> THEN 0
  ELSE IF u = <<>> THEN -1
  ELSE IF v = <<>> THEN 1
  ELSE IF u[1] < v[1] THEN -1
  ELSE IF u[1] > v[1] THEN 1
  ELSE LexCmp(Tail(u), Tail(v))

Weights(cs, W(_)) == [i \in 1..Len(cs) |-> W(cs[i])]

\* a.localeCompare(b)
LocaleCompare(a, b) ==
  LET p == LexCmp(Weights(NameChars[a], Primary), Weights(NameChars[b], Primary))
  IN  IF p # 0 THEN p
      ELSE LexCmp(Weights(NameChars[a], Tertiary), Weights(NameChars[b], Tertiary))


(***************************************************************************)
(* Layout arithmetic of generatePDF.                                       *)
(***************************************************************************)
PageSizes == {"a4", "letter", "legal", "a3"}
Orientations == {"portrait", "landscape"}
ImageSizes == {"fit", "fill", "original"}
\* the range of the margin slider
MinMargin == 0
MaxMargin == 50
Margins == MinMargin..MaxMargin

\* page sizes in mm, portrait
pageDimensions ==
  [ps \in PageSizes |->
     CASE ps = "a4"     -> [width |-> FInt(210),      height |-> FInt(297)]
       [] ps = "letter" -> [width |-> FTenths(2159),  height |-> FTenths(2794)]
       [] ps = "legal"  -> [width |-> FTenths(2159),  height |-> FTenths(3556)]
       [] ps = "a3"     -> [width |-> FInt(297),      height |-> FInt(420)]]

isLandscape(cfg) == cfg.orientation = "landscape"

pageWidth(cfg) ==
  IF isLandscape(cfg) THEN pageDimensions[cfg.pageSize].height
  ELSE pageDimensions[cfg.pageSize].width

pageHeight(cfg) ==
  IF isLandscape(cfg) THEN pageDimensions[cfg.pageSize].width
  ELSE pageDimensions[cfg.pageSize].height

\* what generatePDF computes once, before its loop: the page in mm and the
\* printable rectangle maxW x maxH
PageOf(cfg) ==
  Let2(pageWidth(cfg), pageHeight(cfg), LAMBDA pw, ph :
    [pageWidth |-> pw, pageHeight |-> ph,
     maxW |-> FSub(pw, FMul(FInt(cfg.margin), FInt(2))),
     maxH |-> FSub(ph, FMul(FInt(cfg.margin), FInt(2)))])

\* pixels to mm at 96 DPI
pxToMm == FDiv(FTenths(254), FInt(96))

\* FitRatio without its cap at 1: a variant that enlarges small images
FitRatioUncapped(pg, w, h) == FMin2(FDiv(pg.maxW, w), FDiv(pg.maxH, h))

\* FitRatio looking at the width alone: a variant that lets a tall image
\* run over the printable rectangle
FitRatioByWidth(pg, w, h) == FMin2(FDiv(pg.maxW, w), FInt(1))

\* the scale factor of the "fit" case
FitRatio(pg, w, h) == FMin3(FDiv(pg.maxW, w), FDiv(pg.maxH, h), FInt(1))

\* FillRatio looking at the width alone: a variant that leaves the printable
\* rectangle uncovered below a wide image
FillRatioByWidth(pg, w, h) == FDiv(pg.maxW, w)

\* the scale factor of the "fill" case
FillRatio(pg, w, h) == FMax2(FDiv(pg.maxW, w), FDiv(pg.maxH, h))

\* OriginalRatio without the test: a variant that keeps the native size
\* whatever the page
OriginalRatioNative(pg, w, h) == FInt(1)

\* the scale factor of the "original" case: the image is left untouched
\* (which is what a factor of exactly 1 yields) unless it exceeds the
\* printable rectangle
OriginalRatio(pg, w, h) ==
  IF FGt(w, pg.maxW) \/ FGt(h, pg.maxH)
  THEN FMin3(FDiv(pg.maxW, w), FDiv(pg.maxH, h), FInt(1))
  ELSE FInt(1)

\* finalW and finalH after the switch on imageSize, for an image of
\* wpx x hpx pixels
FinalSize(pg, imageSize, wpx, hpx) ==
  Let2(FMul(FInt(wpx), pxToMm), FMul(FInt(hpx), pxToMm), LAMBDA w, h :
    Let1(CASE imageSize = "fit"      -> FitRatio(pg, w, h)
           [] imageSize = "fill"     -> FillRatio(pg, w, h)
           [] imageSize = "original" -> OriginalRatio(pg, w, h),
         LAMBDA ratio : [w |-> FMul(w, ratio), h |-> FMul(h, ratio)]))

\* Place with y computed from the page width: a variant that centers
\* horizontally only
PlaceByWidth(pg, imageSize, wpx, hpx) ==
  Let1(FinalSize(pg, imageSize, wpx, hpx), LAMBDA fs :
    [x |-> FDiv(FSub(pg.pageWidth, fs.w), FInt(2)),
     y |-> FDiv(FSub(pg.pageWidth, fs.h), FInt(2)),
     w |-> fs.w,
     h |-> fs.h])

\* the rectangle (x, y, finalW, finalH) handed to addImage
Place(pg, imageSize, wpx, hpx) ==
  Let1(FinalSize(pg, imageSize, wpx, hpx), LAMBDA fs :
    [x |-> FDiv(FSub(pg.pageWidth, fs.w), FInt(2)),
     y |-> FDiv(FSub(pg.pageHeight, fs.h), FInt(2)),
     w |-> fs.w,
     h |-> fs.h])

\* file.type.includes(sub), for the MIME types of the model
TypeIncludes(t, sub) ==
  \/ sub = "png"  /\ t = "image/png"
  \/ sub = "webp" /\ t = "image/webp"

\* the image-type tag passed to addImage
ImageType(f) ==
  IF TypeIncludes(f.type, "png") THEN "PNG"
  ELSE IF TypeIncludes(f.type, "webp") THEN "WEBP"
  ELSE "JPEG"

\* Math.round(((i + 1) / n) * 100) for 0 <= i < n: the quotient and the
\* product are doubles, and the product is rounded to the nearest integer,
\* halves upwards
ProgressAfter(i, n) == MathRound(FMul(FDiv(FInt(i + 1), FInt(n)), FInt(100)))


(***************************************************************************)
(* Array helpers.                                                          *)
(***************************************************************************)
Min(a, b) == IF a < b THEN a ELSE b
Max(a, b) == IF a > b THEN a ELSE b

\* Array.prototype.splice(start, deleteCount, ...items) on array s with
\* 0-based start: the removed elements and the array afterwards
Splice(s, start, deleteCount, items) ==
  LET st == IF start < 0 THEN Max(Len(s) + start, 0) ELSE Min(start, Len(s))
      dc == Min(Max(deleteCount, 0), Len(s) - st)
  IN  [removed |-> SubSeq(s, st + 1, st + dc),
       result  |-> SubSeq(s, 1, st) \o items \o SubSeq(s, st + dc + 1, Len(s))]

\* FilterOut cutting the array off at the index: a variant that drops the
\* later entries too
FilterOutTail(s, index) == SubSeq(s, 1, index)

\* array.filter((_, i) => i !== index), 0-based index
FilterOut(s, index) ==
  LET keep == {i \in 1..Len(s) : i - 1 # index}
      F[i \in 0..Len(s)] ==
        IF i = 0 THEN <<>> ELSE IF i \in keep THEN Append(F[i - 1], s[i]) ELSE F[i - 1]
  IN  F[Len(s)]

\* the comparator given to sort
SortCompare(order, a, b) ==
  IF order = "asc" THEN LocaleCompare(a.name, b.name)
  ELSE LocaleCompare(b.name, a.name)

RECURSIVE InsertBefore(_, _, _)
\* InsertSorted with x placed before the elements that compare equal to it: a
\* variant that makes the sort unstable
InsertBefore(sorted, x, order) ==
  IF sorted = <<>> THEN <<x>>
  ELSE IF SortCompare(order, Head(sorted), x) < 0
       THEN <<Head(sorted)>> \o InsertBefore(Tail(sorted), x, order)
       ELSE <<x>> \o sorted

RECURSIVE InsertSorted(_, _, _)
\* x placed behind every element of the sorted array that does not compare
\* greater than it
InsertSorted(sorted, x, order) ==
  IF sorted = <<>> THEN <<x>>
  ELSE IF SortCompare(order, Head(sorted), x) <= 0
       THEN <<Head(sorted)>> \o InsertSorted(Tail(sorted), x, order)
       ELSE <<x>> \o sorted

RECURSIVE SortArray(_, _)
\* [...s].sort(compare): Array.prototype.sort is stable, so the result is the
\* one that inserting the elements in their original order produces
SortArray(s, order) ==
  IF s = <<>> THEN <<>>
  ELSE InsertSorted(SortArray(SubSeq(s, 1, Len(s) - 1), order), s[Len(s)], order)

(***************************************************************************)
(* State.                                                                  *)
(***************************************************************************)
VARIABLES
  files,            \* useState<File[]>
  previews,         \* useState<Preview[]>: [name, url, file]; the id field, a
                    \* random string used only as React key, is left out
  sortOrder,        \* "asc" | "desc"
  isLoading,
  isConverting,
  progress,
  pageSize, orientation, imageSize, margin, fileName,
  selectedPreview,  \* <<n>> for the number n (the index of the entry shown in
                    \* the modal), NoSelection for null
  timers,           \* file lists of the handleFiles timeouts not yet fired, oldest first
  objectUrls,       \* objectUrls[u]: how often URL u, the u-th made by
                    \* URL.createObjectURL, was passed to URL.revokeObjectURL
  runs,             \* the generatePDF calls that got past the empty check
  saved,            \* the documents handed to pdf.save, in order
  notice,           \* the alert shown by the last step, "none" if it showed none
  thrown,           \* the exception the last step let escape, "none" if it let none
  op,               \* the last step: handler name and arguments a, b (0 where
                    \* the handler has none); for addTimeout a and b count the
                    \* files offered and the files chosen, for sortImages a
                    \* tells whether the step before was a sortImages too,
                    \* for clear a counts the entries dropped
  scenario          \* progress of the behaviour through the scenario of section 8

vars == <<files, previews, sortOrder, isLoading, isConverting, progress,
          pageSize, orientation, imageSize, margin, fileName, selectedPreview,
          timers, objectUrls, runs, saved, notice, thrown, op, scenario>>

collection == <<files, previews>>
config == <<pageSize, orientation, imageSize, margin, fileName>>
generation == <<isConverting, progress, runs, saved>>

\* selectedPreview === null; a number n is held as <<n>>
NoSelection == <<>>

Names(ps) == [i \in 1..Len(ps) |-> ps[i].name]
Urls(ps) == {ps[i].url : i \in 1..Len(ps)}

\* the scenario of section 8: entries b.png, a.jpg, c.gif added to a fresh
\* session ("fresh": nothing but adds so far), then one sort ("sorted"),
\* then reorder(2, 0) ("reordered"); "off" once the behaviour leaves it
ScenarioAfter(name, a, b) ==
  IF name \in {"handleFiles", "addTimeout"}
  THEN (IF scenario = "fresh" THEN "fresh" ELSE "off")
  ELSE IF name = "sortImages" /\ scenario = "fresh" /\ timers = <<>>
          /\ Names(previews) = <<"b.png", "a.jpg", "c.gif">>
  THEN "sorted"
  ELSE IF name = "reorderImages" /\ scenario = "sorted" /\ a = 2 /\ b = 0
  THEN "reordered"
  ELSE "off"

Step(name, a, b, alert) ==
  /\ op' = [name |-> name, a |-> a, b |-> b]
  /\ notice' = alert
  /\ thrown' = "none"
  /\ scenario' = ScenarioAfter(name, a, b)

\* a step that ends with an exception nothing catches
Throw(name, a, b, error) ==
  /\ op' = [name |-> name, a |-> a, b |-> b]
  /\ notice' = "none"
  /\ thrown' = error
  /\ scenario' = ScenarioAfter(name, a, b)

Init ==
  /\ files = <<>>
  /\ previews = <<>>
  /\ sortOrder = "asc"
  /\ isLoading = FALSE
  /\ isConverting = FALSE
  /\ progress = 0
  /\ pageSize = "a4"
  /\ orientation = "portrait"
  /\ imageSize = "fit"
  /\ margin = 10
  /\ fileName = "images-to-pdf"
  /\ selectedPreview = NoSelection
  /\ timers = <<>>
  /\ objectUrls = <<>>
  /\ runs = <<>>
  /\ saved = <<>>
  /\ notice = "none"
  /\ thrown = "none"
  /\ op = [name |-> "init", a |-> 0, b |-> 0]
  /\ scenario = "fresh"

(***************************************************************************)
(* The collection handlers.                                                *)
(***************************************************************************)
\* IsChosen as the component of App.tsx has it: a variant that drops webp and
\* gif files
IsChosenJpegPng(file) ==
  \/ file.type = "image/jpeg"
  \/ file.type = "image/png"

\* the filter of handleFiles
IsChosen(file) ==
  \/ file.type = "image/jpeg"
  \/ file.type = "image/png"
  \/ file.type = "image/webp"
  \/ file.type = "image/gif"

Chosen(cands) == SelectSeq(cands, IsChosen)

RECURSIVE PendingChosen(_)
PendingChosen(ts) ==
  IF ts = <<>> THEN 0 ELSE Len(Chosen(Head(ts))) + PendingChosen(Tail(ts))

\* handleFiles(cands), up to its setTimeout.  The last two conjuncts of the
\* guard only bound the model.
HandleFiles(cands, maxPending, maxUrls) ==
  /\ Len(timers) < maxPending
  /\ Len(objectUrls) + PendingChosen(timers) + Len(Chosen(cands)) <= maxUrls
  /\ isLoading' = TRUE
  /\ timers' = Append(timers, cands)
  /\ Step("handleFiles", 0, 0, "none")
  /\ UNCHANGED <<collection, sortOrder, config, generation, selectedPreview, objectUrls>>

\* the previews made for the chosen files, the first URL being number first
NewPreviews(chosen, first) ==
  [i \in 1..Len(chosen) |->
     [name |-> chosen[i].name, url |-> first + i - 1, file |-> chosen[i]]]

\* AddTimeout for the timeout set last: a variant in which overlapping
\* adds complete in the reverse of the order of their calls
AddTimeoutNewest ==
  /\ timers # <<>>
  /\ LET chosen == Chosen(timers[Len(timers)])
     IN  /\ files' = files \o chosen
         /\ previews' = previews \o NewPreviews(chosen, Len(objectUrls) + 1)
         /\ objectUrls' = objectUrls \o [i \in 1..Len(chosen) |-> 0]
  /\ isLoading' = FALSE
  /\ timers' = SubSeq(timers, 1, Len(timers) - 1)
  /\ Step("addTimeout", Len(timers[Len(timers)]), Len(Chosen(timers[Len(timers)])), "none")
  /\ UNCHANGED <<sortOrder, config, generation, selectedPreview>>

\* the callback of the oldest handleFiles timeout (all have the same delay,
\* so they fire in the order they were set)
AddTimeout ==
  /\ timers # <<>>
  /\ LET chosen == Chosen(Head(timers))
     IN  /\ files' = files \o chosen
         /\ previews' = previews \o NewPreviews(chosen, Len(objectUrls) + 1)
         /\ objectUrls' = objectUrls \o [i \in 1..Len(chosen) |-> 0]
  /\ isLoading' = FALSE
  /\ timers' = Tail(timers)
  /\ Step("addTimeout", Len(Head(timers)), Len(Chosen(Head(timers))), "none")
  /\ UNCHANGED <<sortOrder, config, generation, selectedPreview>>

\* the callback of the oldest handleFiles timeout when the component is no
\* longer on the page: the object URLs are made, the setters find no
\* component and change nothing
AddTimeoutUnmounted ==
  /\ timers # <<>>
  /\ objectUrls' = objectUrls \o [i \in 1..Len(Chosen(Head(timers))) |-> 0]
  /\ timers' = Tail(timers)
  /\ Step("addTimeout", Len(Head(timers)), Len(Chosen(Head(timers))), "none")
  /\ UNCHANGED <<collection, isLoading, sortOrder, config, generation, selectedPreview>>

\* Revoke without the revokeObjectURL calls: a variant that leaks the URLs
RevokeNothing(urls, ps) == urls

\* the revocation counts after URL.revokeObjectURL(p.url) for each entry p of ps
Revoke(urls, ps) ==
  [u \in 1..Len(urls) |-> urls[u] + Cardinality({i \in 1..Len(ps) : ps[i].url = u})]

\* Clear putting the layout settings back to their initial values as well: a
\* variant that resets more than the collection
ClearSettings ==
  /\ objectUrls' = Revoke(objectUrls, previews)
  /\ files' = <<>>
  /\ previews' = <<>>
  /\ pageSize' = "a4"
  /\ orientation' = "portrait"
  /\ imageSize' = "fit"
  /\ margin' = 10
  /\ fileName' = "images-to-pdf"
  /\ Step("clear", Len(previews), 0, "none")
  /\ UNCHANGED <<sortOrder, isLoading, timers, generation, selectedPreview>>

\* clear(); resetting the file input changes nothing of the state
Clear ==
  /\ objectUrls' = Revoke(objectUrls, previews)
  /\ files' = <<>>
  /\ previews' = <<>>
  /\ Step("clear", Len(previews), 0, "none")
  /\ UNCHANGED <<sortOrder, isLoading, timers, config, generation, selectedPreview>>

\* ReorderImages exchanging the two entries: a variant that disturbs the
\* entries in between
ReorderImagesSwap(fromIndex, toIndex) ==
  /\ fromIndex \in 0..(Len(previews) - 1)
  /\ toIndex \in 0..(Len(previews) - 1)
  /\ previews' = [previews EXCEPT ![fromIndex + 1] = previews[toIndex + 1],
                                  ![toIndex + 1] = previews[fromIndex + 1]]
  /\ files' = [files EXCEPT ![fromIndex + 1] = files[toIndex + 1],
                            ![toIndex + 1] = files[fromIndex + 1]]
  /\ Step("reorderImages", fromIndex, toIndex, "none")
  /\ UNCHANGED <<sortOrder, isLoading, timers, objectUrls, config, generation, selectedPreview>>

\* ReorderImages moving the preview and leaving the files alone: a variant
\* that lets the two lists drift apart
ReorderPreviews(fromIndex, toIndex) ==
  /\ fromIndex \in 0..(Len(previews) - 1)
  /\ toIndex \in 0..(Len(previews) - 1)
  /\ LET cutP == Splice(previews, fromIndex, 1, <<>>)
     IN  previews' = Splice(cutP.result, toIndex, 0, <<cutP.removed[1]>>).result
  /\ files' = files
  /\ Step("reorderImages", fromIndex, toIndex, "none")
  /\ UNCHANGED <<sortOrder, isLoading, timers, objectUrls, config, generation, selectedPreview>>

\* reorderImages(fromIndex, toIndex) for an index of an existing entry
ReorderImages(fromIndex, toIndex) ==
  /\ fromIndex \in 0..(Len(previews) - 1)
  /\ toIndex \in 0..(Len(previews) - 1)
  /\ LET cutP == Splice(previews, fromIndex, 1, <<>>)
         cutF == Splice(files, fromIndex, 1, <<>>)
     IN  /\ previews' = Splice(cutP.result, toIndex, 0, <<cutP.removed[1]>>).result
         /\ files' = Splice(cutF.result, toIndex, 0, <<cutF.removed[1]>>).result
  /\ Step("reorderImages", fromIndex, toIndex, "none")
  /\ UNCHANGED <<sortOrder, isLoading, timers, objectUrls, config, generation, selectedPreview>>

\* SortImages sorting by the order shown instead of the toggled one: a
\* variant whose direction lags one click behind
SortImagesShown ==
  LET sortedPreviews == SortArray(previews, sortOrder)
  IN  /\ sortOrder' = sortOrder
      /\ previews' = sortedPreviews
      /\ files' = [i \in 1..Len(sortedPreviews) |-> sortedPreviews[i].file]
      /\ Step("sortImages", IF op.name = "sortImages" THEN 1 ELSE 0, 0, "none")
      /\ UNCHANGED <<isLoading, timers, objectUrls, config, generation, selectedPreview>>

\* sortImages()
SortImages ==
  LET newOrder == IF sortOrder = "asc" THEN "desc" ELSE "asc"
      sortedPreviews == SortArray(previews, newOrder)
  IN  /\ sortOrder' = newOrder
      /\ previews' = sortedPreviews
      /\ files' = [i \in 1..Len(sortedPreviews) |-> sortedPreviews[i].file]
      /\ Step("sortImages", IF op.name = "sortImages" THEN 1 ELSE 0, 0, "none")
      /\ UNCHANGED <<isLoading, timers, objectUrls, config, generation, selectedPreview>>

\* removeImage(index).  Where index names no entry, previews[index] is
\* undefined and reading its url throws a TypeError before anything is set.
RemoveImage(index) ==
  IF index \in 0..(Len(previews) - 1)
  THEN /\ objectUrls' = Revoke(objectUrls, <<previews[index + 1]>>)
       /\ previews' = FilterOut(previews, index)
       /\ files' = FilterOut(files, index)
       /\ Step("removeImage", index, 0, "none")
       /\ UNCHANGED <<sortOrder, isLoading, timers, config, generation, selectedPreview>>
  ELSE /\ Throw("removeImage", index, 0, "TypeError")
       /\ UNCHANGED <<collection, sortOrder, isLoading, timers, objectUrls, config,
                      generation, selectedPreview>>


(***************************************************************************)
(* The controls of the settings panel.                                     *)
(***************************************************************************)
\* the values the controls are set to in the model: every page size,
\* orientation and sizing policy, the two ends of the margin slider, and two
\* file names
SetMargins == {MinMargin, MaxMargin}
SetFileNames == {"images-to-pdf", "scan"}

\* onChange of the page size select
SetPageSize(v) ==
  /\ pageSize' = v
  /\ Step("setPageSize", 0, 0, "none")
  /\ UNCHANGED <<collection, sortOrder, isLoading, timers, objectUrls, orientation,
                 imageSize, margin, fileName, generation, selectedPreview>>

\* onChange of the orientation select
SetOrientation(v) ==
  /\ orientation' = v
  /\ Step("setOrientation", 0, 0, "none")
  /\ UNCHANGED <<collection, sortOrder, isLoading, timers, objectUrls, pageSize,
                 imageSize, margin, fileName, generation, selectedPreview>>

\* onChange of the image size select
SetImageSize(v) ==
  /\ imageSize' = v
  /\ Step("setImageSize", 0, 0, "none")
  /\ UNCHANGED <<collection, sortOrder, isLoading, timers, objectUrls, pageSize,
                 orientation, margin, fileName, generation, selectedPreview>>

\* onChange of the file name input
SetFileName(v) ==
  /\ fileName' = v
  /\ Step("setFileName", 0, 0, "none")
  /\ UNCHANGED <<collection, sortOrder, isLoading, timers, objectUrls, pageSize,
                 orientation, imageSize, margin, generation, selectedPreview>>

\* onChange of the margin slider: setMargin(parseInt(e.target.value))
SetMargin(v) ==
  /\ margin' = v
  /\ Step("setMargin", v, 0, "none")
  /\ UNCHANGED <<collection, sortOrder, isLoading, timers, objectUrls, pageSize,
                 orientation, imageSize, fileName, generation, selectedPreview>>

(***************************************************************************)
(* generatePDF.  The function runs up to its first await inside the        *)
(* handler; each later stretch runs when the FileReader or the Image       *)
(* reports, and the save runs in a timeout.  A run works on the values its *)
(* closure captured: the files, the layout settings and the file name of   *)
(* the render in which it was called.                                      *)
(***************************************************************************)
Settings ==
  [pageSize |-> pageSize, orientation |-> orientation, imageSize |-> imageSize,
   margin |-> margin, fileName |-> fileName]

\* new jsPDF(...): a document with one empty page
NewPdf == << <<>> >>

\* pdf.addPage()
AddPage(pdf) == Append(pdf, <<>>)

\* pdf.addImage(...): onto the current, i.e. last, page
AddImage(pdf, img) == [pdf EXCEPT ![Len(pdf)] = Append(@, img)]

\* PlaceOnPdf without the test i > 0: a variant that leaves the first page
\* empty
PlaceOnNewPage(pdf, i, img) == AddImage(AddPage(pdf), img)

\* the loop body from addPage on: the image goes onto a new page unless it is
\* the first
PlaceOnPdf(pdf, i, img) == AddImage(IF i > 0 THEN AddPage(pdf) ELSE pdf, img)

\* GeneratePDF raising isConverting before it looks at files: a variant that
\* leaves the flag set when there is nothing to convert
GeneratePDFEager(maxRuns) ==
  IF Len(files) = 0
  THEN /\ isConverting' = TRUE
       /\ progress' = 0
       /\ Step("generatePDF", 0, 0, "empty")
       /\ UNCHANGED <<collection, sortOrder, isLoading, timers, objectUrls, config,
                      runs, saved, selectedPreview>>
  ELSE /\ Len(runs) < maxRuns
       /\ isConverting' = TRUE
       /\ progress' = 0
       /\ runs' = Append(runs, [files |-> files, page |-> PageOf(Settings),
                                imageSize |-> imageSize, margin |-> margin,
                                fileName |-> fileName,
                                i |-> 0, pc |-> "reading", pdf |-> NewPdf])
       /\ Step("generatePDF", 0, 0, "none")
       /\ UNCHANGED <<collection, sortOrder, isLoading, timers, objectUrls, config,
                      saved, selectedPreview>>

\* generatePDF(), up to its first await.  Len(runs) < maxRuns only bounds the
\* model.
GeneratePDF(maxRuns) ==
  IF Len(files) = 0
  THEN /\ Step("generatePDF", 0, 0, "empty")
       /\ UNCHANGED <<collection, sortOrder, isLoading, timers, objectUrls, config,
                      generation, selectedPreview>>
  ELSE /\ Len(runs) < maxRuns
       /\ isConverting' = TRUE
       /\ progress' = 0
       /\ runs' = Append(runs, [files |-> files, page |-> PageOf(Settings),
                                imageSize |-> imageSize, margin |-> margin,
                                fileName |-> fileName,
                                i |-> 0, pc |-> "reading", pdf |-> NewPdf])
       /\ Step("generatePDF", 0, 0, "none")
       /\ UNCHANGED <<collection, sortOrder, isLoading, timers, objectUrls, config,
                      saved, selectedPreview>>

\* ReaderLoad going on to read the next entry, where there is one, while
\* the image of this one still decodes: a variant without the second await
ReaderLoadAhead(r) ==
  /\ r \in 1..Len(runs)
  /\ runs[r].pc = "reading"
  /\ progress' = ProgressAfter(runs[r].i, Len(runs[r].files))
  /\ runs' = [runs EXCEPT ![r].i = IF runs[r].i + 1 < Len(runs[r].files)
                                    THEN runs[r].i + 1 ELSE runs[r].i,
                          ![r].pc = IF runs[r].i + 1 < Len(runs[r].files)
                                    THEN "reading" ELSE "decoding"]
  /\ Step("readerLoad", r, 0, "none")
  /\ UNCHANGED <<collection, sortOrder, isLoading, timers, objectUrls, config,
                 isConverting, saved, selectedPreview>>

\* reader.onload of run r: fileToDataURL resolves, progress is reported and
\* the Image starts loading
ReaderLoad(r) ==
  /\ r \in 1..Len(runs)
  /\ runs[r].pc = "reading"
  /\ runs' = [runs EXCEPT ![r].pc = "decoding"]
  /\ Step("readerLoad", r, 0, "none")
  /\ UNCHANGED <<collection, sortOrder, isLoading, timers, objectUrls, config,
                 isConverting, saved, selectedPreview>>
  /\ progress' = ProgressAfter(runs[r].i, Len(runs[r].files))

\* the catch block
Catch(r, name) ==
  /\ isConverting' = FALSE
  /\ progress' = 0
  /\ runs' = [runs EXCEPT ![r].pc = "failed"]
  /\ Step(name, r, 0, "error")
  /\ UNCHANGED <<collection, sortOrder, isLoading, timers, objectUrls, config,
                 saved, selectedPreview>>

\* reader.onerror of run r
ReaderError(r) ==
  /\ r \in 1..Len(runs)
  /\ runs[r].pc = "reading"
  /\ Catch(r, "readerError")

\* ImageError going on with the next entry: a variant that tolerates an
\* image that does not decode
ImageErrorSkip(r) ==
  /\ r \in 1..Len(runs)
  /\ runs[r].pc = "decoding"
  /\ runs' = [runs EXCEPT ![r].i = runs[r].i + 1,
                          ![r].pc = IF runs[r].i + 1 < Len(runs[r].files)
                                    THEN "reading" ELSE "waiting"]
  /\ Step("imageError", r, 0, "none")
  /\ UNCHANGED <<collection, sortOrder, isLoading, timers, objectUrls, config,
                 isConverting, progress, saved, selectedPreview>>

\* img.onerror of run r
ImageError(r) ==
  /\ r \in 1..Len(runs)
  /\ runs[r].pc = "decoding"
  /\ Catch(r, "imageError")

\* the stretch after img.onload of run r with pdf.addImage throwing: the
\* page for an entry other than the first is added before the call, and the
\* throw is inside the try block
AddImageError(r) ==
  /\ r \in 1..Len(runs)
  /\ runs[r].pc = "decoding"
  /\ isConverting' = FALSE
  /\ progress' = 0
  /\ runs' = [runs EXCEPT ![r].pdf = IF runs[r].i > 0 THEN AddPage(@) ELSE @,
                          ![r].pc = "failed"]
  /\ Step("addImageError", r, 0, "error")
  /\ UNCHANGED <<collection, sortOrder, isLoading, timers, objectUrls, config,
                 saved, selectedPreview>>

\* ImageLoad taking the file from the files of the current render: a
\* variant without the snapshot of the closure
ImageLoadLive(r) ==
  /\ r \in 1..Len(runs)
  /\ runs[r].pc = "decoding"
  /\ Step("imageLoad", r, 0, "none")
  /\ UNCHANGED <<collection, sortOrder, isLoading, timers, objectUrls, config,
                 isConverting, progress, saved, selectedPreview>>
  /\ LET run  == runs[r]
         file == IF run.i + 1 <= Len(files) THEN files[run.i + 1]
                 ELSE run.files[run.i + 1]
         rect == Place(run.page, run.imageSize, file.w, file.h)
         pdf2 == PlaceOnPdf(run.pdf, run.i,
                            [data |-> file, type |-> ImageType(file),
                             x |-> rect.x, y |-> rect.y, w |-> rect.w, h |-> rect.h])
     IN  runs' = [runs EXCEPT ![r].pdf = pdf2,
                              ![r].i = run.i + 1,
                              ![r].pc = IF run.i + 1 < Len(run.files)
                                        THEN "reading" ELSE "waiting"]

\* img.onload of run r: the image is placed, on a new page unless it is the
\* first; then the next file is read or, after the last, the save is scheduled
ImageLoad(r) ==
  /\ r \in 1..Len(runs)
  /\ runs[r].pc = "decoding"
  /\ Step("imageLoad", r, 0, "none")
  /\ UNCHANGED <<collection, sortOrder, isLoading, timers, objectUrls, config,
                 isConverting, progress, saved, selectedPreview>>
  /\ LET run  == runs[r]
         file == run.files[run.i + 1]
         rect == Place(run.page, run.imageSize, file.w, file.h)
         pdf2 == PlaceOnPdf(run.pdf, run.i,
                            [data |-> file, type |-> ImageType(file),
                             x |-> rect.x, y |-> rect.y, w |-> rect.w, h |-> rect.h])
     IN  runs' = [runs EXCEPT ![r].pdf = pdf2,
                              ![r].i = run.i + 1,
                              ![r].pc = IF run.i + 1 < Len(run.files)
                                        THEN "reading" ELSE "waiting"]

\* SaveTimeout naming the document after the file name of the current
\* render: a variant without the snapshot of the closure
SaveTimeoutLive(r) ==
  /\ r \in 1..Len(runs)
  /\ runs[r].pc = "waiting"
  /\ saved' = Append(saved, [name |-> <<fileName, ".pdf">>, pages |-> runs[r].pdf,
                             run |-> r])
  /\ isConverting' = FALSE
  /\ progress' = 0
  /\ runs' = [runs EXCEPT ![r].pc = "done"]
  /\ Step("saveTimeout", r, 0, "none")
  /\ UNCHANGED <<collection, sortOrder, isLoading, timers, objectUrls, config,
                 selectedPreview>>

\* the timeout set after the loop: pdf.save(`${fileName}.pdf`)
SaveTimeout(r) ==
  /\ r \in 1..Len(runs)
  /\ runs[r].pc = "waiting"
  /\ saved' = Append(saved, [name |-> <<runs[r].fileName, ".pdf">>, pages |-> runs[r].pdf,
                             run |-> r])
  /\ isConverting' = FALSE
  /\ progress' = 0
  /\ runs' = [runs EXCEPT ![r].pc = "done"]
  /\ Step("saveTimeout", r, 0, "none")
  /\ UNCHANGED <<collection, sortOrder, isLoading, timers, objectUrls, config,
                 selectedPreview>>

\* the timeout set after the loop with pdf.save throwing: the callback runs
\* after the try block was left, so nothing catches the exception, and the
\* two setters after the call are not reached
SaveError(r) ==
  /\ r \in 1..Len(runs)
  /\ runs[r].pc = "waiting"
  /\ runs' = [runs EXCEPT ![r].pc = "crashed"]
  /\ Throw("saveError", r, 0, "Error")
  /\ UNCHANGED <<collection, sortOrder, isLoading, timers, objectUrls, config,
                 isConverting, progress, saved, selectedPreview>>

(***************************************************************************)
(* The controls as rendered: the Sort and Clear buttons, the buttons of    *)
(* each entry and the Generate button exist while there are previews.      *)
(***************************************************************************)
ClickSort ==
  /\ Len(previews) > 0
  /\ SortImages

ClickClear ==
  /\ Len(previews) > 0
  /\ Clear

\* the Remove button of entry idx
ClickRemove(idx) ==
  /\ idx \in 0..(Len(previews) - 1)
  /\ RemoveImage(idx)

\* the Move Left button of entry idx, disabled on the first entry
ClickMoveLeft(idx) ==
  /\ idx \in 0..(Len(previews) - 1)
  /\ idx > 0
  /\ ReorderImages(idx, idx - 1)

\* the Move Right button of entry idx, disabled on the last entry
ClickMoveRight(idx) ==
  /\ idx \in 0..(Len(previews) - 1)
  /\ idx < Len(previews) - 1
  /\ ReorderImages(idx, idx + 1)

\* ClickGenerate on a button that is never disabled: a variant that lets a
\* second run start beside the first
ClickGenerateAlways(maxRuns) ==
  /\ Len(previews) > 0
  /\ GeneratePDF(maxRuns)

\* a click on the Generate button, which is rendered while there are
\* previews and disabled while isConverting
ClickGenerate(maxRuns) ==
  /\ Len(previews) > 0
  /\ ~isConverting
  /\ GeneratePDF(maxRuns)

(***************************************************************************)
(* Specifications.                                                         *)
(***************************************************************************)
\* the collection handlers, called in any order
Next ==
  \/ \E cands \in Picks : HandleFiles(cands, MaxPending, MaxUrls)
  \/ AddTimeout
  \/ Clear
  \/ \E i, j \in 0..(MaxUrls - 1) : ReorderImages(i, j)
  \/ SortImages
  \/ \E i \in 0..(Len(previews) - 1) : RemoveImage(i)

Spec == Init /\ [][Next]_vars

\* adding files of every kind, and taking entries out again, removeImage
\* being called with any index from one below the first entry to one above
\* the longest collection
AddNext ==
  \/ \E cands \in AddPicks : HandleFiles(cands, MaxAddPending, MaxAddUrls)
  \/ AddTimeout
  \/ Clear
  \/ \E i \in -1..MaxAddUrls : RemoveImage(i)

SpecAdd == Init /\ [][AddNext]_vars

\* adding and clearing while the settings are edited
ConfigNext ==
  \/ \E cands \in CfgPicks : HandleFiles(cands, MaxCfgPending, MaxCfgUrls)
  \/ AddTimeout
  \/ Clear
  \/ \E v \in PageSizes : SetPageSize(v)
  \/ \E v \in Orientations : SetOrientation(v)
  \/ \E v \in ImageSizes : SetImageSize(v)
  \/ \E v \in SetFileNames : SetFileName(v)
  \/ \E v \in SetMargins : SetMargin(v)

SpecConfig == Init /\ [][ConfigNext]_vars

\* the collection handlers and generatePDF with its callbacks, in any order
GenNext ==
  \/ \E cands \in GenPicks : HandleFiles(cands, MaxGenPending, MaxGenUrls)
  \/ AddTimeout
  \/ Clear
  \/ \E i, j \in 0..(MaxGenUrls - 1) : ReorderImages(i, j)
  \/ SortImages
  \/ \E i \in 0..(Len(previews) - 1) : RemoveImage(i)
  \/ GeneratePDF(MaxGenRuns)
  \/ \E r \in 1..MaxGenRuns : ReaderLoad(r)
  \/ \E r \in 1..MaxGenRuns : ReaderError(r)
  \/ \E r \in 1..MaxGenRuns : ImageLoad(r)
  \/ \E r \in 1..MaxGenRuns : ImageError(r)
  \/ \E r \in 1..MaxGenRuns : SaveTimeout(r)

SpecGen == Init /\ [][GenNext]_vars

\* the decoded sizes <<naturalWidth, naturalHeight>> of the images laid out:
\* multiples of ImgStep with MaxImgSteps + 1 steps in all at most
ImgDims == {k * ImgStep : k \in 1..MaxImgSteps}
ImgSizes == {d \in ImgDims \X ImgDims : d[1] + d[2] <= (MaxImgSteps + 1) * ImgStep}

\* one image of any size in the collection, under any layout settings
LayoutInit ==
  /\ \E d \in ImgSizes :
       LET f == File("a.jpg", "image/jpeg", d[1], d[2])
       IN  /\ files = <<f>>
           /\ previews = NewPreviews(<<f>>, 1)
  /\ objectUrls = <<0>>
  /\ sortOrder = "asc"
  /\ isLoading = FALSE
  /\ isConverting = FALSE
  /\ progress = 0
  /\ pageSize \in PageSizes
  /\ orientation \in Orientations
  /\ imageSize \in ImageSizes
  /\ margin \in Margins
  /\ fileName = "images-to-pdf"
  /\ selectedPreview = NoSelection
  /\ timers = <<>>
  /\ runs = <<>>
  /\ saved = <<>>
  /\ notice = "none"
  /\ thrown = "none"
  /\ op = [name |-> "init", a |-> 0, b |-> 0]
  /\ scenario = "off"

LayoutNext ==
  \/ ClickGenerate(MaxLayoutRuns)
  \/ \E r \in 1..MaxLayoutRuns : ReaderLoad(r)
  \/ \E r \in 1..MaxLayoutRuns : ReaderError(r)
  \/ \E r \in 1..MaxLayoutRuns : ImageLoad(r)
  \/ \E r \in 1..MaxLayoutRuns : ImageError(r)
  \/ \E r \in 1..MaxLayoutRuns : SaveTimeout(r)

SpecLayout == LayoutInit /\ [][LayoutNext]_vars

\* the component driven through its controls: files are added by the picker
\* or a drop, the buttons are clicked while they are rendered and enabled,
\* and every read, decode, placement and save ends one way or the other
UiNext ==
  \/ \E cands \in UiPicks : HandleFiles(cands, MaxUiPending, MaxUiUrls)
  \/ AddTimeout
  \/ ClickClear
  \/ ClickSort
  \/ \E i \in 0..(MaxUiUrls - 1) : ClickRemove(i)
  \/ \E i \in 0..(MaxUiUrls - 1) : ClickMoveLeft(i)
  \/ \E i \in 0..(MaxUiUrls - 1) : ClickMoveRight(i)
  \/ ClickGenerate(MaxUiRuns)
  \/ \E r \in 1..MaxUiRuns : ReaderLoad(r)
  \/ \E r \in 1..MaxUiRuns : ReaderError(r)
  \/ \E r \in 1..MaxUiRuns : ImageLoad(r)
  \/ \E r \in 1..MaxUiRuns : ImageError(r)
  \/ \E r \in 1..MaxUiRuns : AddImageError(r)
  \/ \E r \in 1..MaxUiRuns : SaveTimeout(r)
  \/ \E r \in 1..MaxUiRuns : SaveError(r)

SpecUi == Init /\ [][UiNext]_vars

(***************************************************************************)
(* The preview modal.                                                      *)
(***************************************************************************)
Directions == {"prev", "next"}

\* openPreview(index)
OpenPreview(index) ==
  /\ selectedPreview' = <<index>>
  /\ Step("openPreview", index, 0, "none")
  /\ UNCHANGED <<collection, sortOrder, isLoading, timers, objectUrls, config, generation>>

\* closePreview()
ClosePreview ==
  /\ selectedPreview' = NoSelection
  /\ Step("closePreview", 0, 0, "none")
  /\ UNCHANGED <<collection, sortOrder, isLoading, timers, objectUrls, config, generation>>

\* navigatePreview(direction)
NavigatePreview(direction) ==
  /\ IF selectedPreview = NoSelection
     THEN UNCHANGED selectedPreview
     ELSE LET newIndex == IF direction = "prev"
                          THEN selectedPreview[1] - 1
                          ELSE selectedPreview[1] + 1
          IN  IF newIndex >= 0 /\ newIndex < Len(previews)
              THEN selectedPreview' = <<newIndex>>
              ELSE UNCHANGED selectedPreview
  /\ Step("navigatePreview", IF direction = "prev" THEN -1 ELSE 1, 0, "none")
  /\ UNCHANGED <<collection, sortOrder, isLoading, timers, objectUrls, config, generation>>

\* the onClick of dot idx of the modal: setSelectedPreview(idx)
ClickDot(idx) ==
  /\ selectedPreview # NoSelection
  /\ idx \in 0..(Len(previews) - 1)
  /\ selectedPreview' = <<idx>>
  /\ Step("setSelectedPreview", idx, 0, "none")
  /\ UNCHANGED <<collection, sortOrder, isLoading, timers, objectUrls, config, generation>>

\* the image of entry idx is clicked
ClickImage(idx) ==
  /\ idx \in 0..(Len(previews) - 1)
  /\ OpenPreview(idx)

\* the component renders: with a selection, the modal reads
\* previews[selectedPreview].name, which throws when there is no such entry,
\* and nothing catches it, so the component is taken off the page
Mounted ==
  IF selectedPreview = NoSelection THEN TRUE
  ELSE selectedPreview[1] \in 0..(Len(previews) - 1)

\* the collection handlers and those of the preview modal, as long as the
\* component is on the page; the timeouts set before fire afterwards too
ViewNext ==
  \/ \E cands \in ViewPicks : Mounted /\ HandleFiles(cands, MaxViewPending, MaxViewUrls)
  \/ Mounted /\ AddTimeout
  \/ Mounted /\ Clear
  \/ \E i, j \in 0..(Len(previews) - 1) : Mounted /\ ReorderImages(i, j)
  \/ Mounted /\ SortImages
  \/ \E i \in 0..(Len(previews) - 1) : Mounted /\ RemoveImage(i)
  \/ \E idx \in 0..(Len(previews) - 1) : Mounted /\ ClickImage(idx)
  \/ \E idx \in 0..(Len(previews) - 1) : Mounted /\ ClickDot(idx)
  \/ Mounted /\ ClosePreview
  \/ \E direction \in Directions : Mounted /\ NavigatePreview(direction)
  \/ ~Mounted /\ AddTimeoutUnmounted

SpecView == Init /\ [][ViewNext]_vars

(***************************************************************************)
(* The component defined in App.tsx (lines 20 on).  Its files and previews *)
(* are state of the same shape as those of the component in                *)
(* ImageToPdf.tsx and are kept in the same variables; it has no timers, no *)
(* sort order, no settings and no preview selection.                       *)
(***************************************************************************)
\* the filter of handleFiles in App.tsx
AppIsChosen(file) ==
  \/ file.type = "image/jpeg"
  \/ file.type = "image/png"

\* handleFiles(cands) of App.tsx: the chosen files and their previews take
\* the place of the collection.  The guard only bounds the model.
AppHandleFiles(cands) ==
  /\ Len(objectUrls) + Len(SelectSeq(cands, AppIsChosen)) <= MaxAppUrls
  /\ LET chosen == SelectSeq(cands, AppIsChosen)
     IN  /\ files' = chosen
         /\ previews' = NewPreviews(chosen, Len(objectUrls) + 1)
         /\ objectUrls' = objectUrls \o [i \in 1..Len(chosen) |-> 0]
  /\ Step("appHandleFiles", Len(cands), Len(previews), "none")
  /\ UNCHANGED <<sortOrder, isLoading, timers, config, generation, selectedPreview>>

\* clear of App.tsx
AppClear ==
  /\ objectUrls' = Revoke(objectUrls, previews)
  /\ files' = <<>>
  /\ previews' = <<>>
  /\ Step("appClear", Len(previews), 0, "none")
  /\ UNCHANGED <<sortOrder, isLoading, timers, config, generation, selectedPreview>>

\* the onClick of the remove button of entry idx in App.tsx
AppRemove(idx) ==
  /\ idx \in 0..(Len(previews) - 1)
  /\ previews' = FilterOut(previews, idx)
  /\ files' = FilterOut(files, idx)
  /\ Step("appRemove", idx, 0, "none")
  /\ UNCHANGED <<objectUrls, sortOrder, isLoading, timers, config, generation,
                 selectedPreview>>

\* the page of new jsPDF({unit: "mm", format: "a4"}) as pageSize.getWidth()
\* and getHeight() give it.  The library is not part of the sources: a4 is
\* either the nominal 210 x 297 mm or, as jsPDF keeps it, 595.28 x 841.89 pt
\* divided by the 72 / 25.4 pt of a mm (a literal with two decimals is the
\* double nearest to it, the correctly rounded quotient by 100).
JsPdfA4 ==
  {[width |-> FInt(210), height |-> FInt(297)],
   [width  |-> FDiv(FDiv(FInt(59528), FInt(100)), FDiv(FInt(72), FTenths(254))),
    height |-> FDiv(FDiv(FInt(84189), FInt(100)), FDiv(FInt(72), FTenths(254)))]}

\* the page and the printable rectangle of generatePDF in App.tsx: the page
\* less 20 mm each way
AppPageOf(a4) ==
  Let2(a4.width, a4.height, LAMBDA pw, ph :
    [pageWidth |-> pw, pageHeight |-> ph,
     maxW |-> FSub(pw, FInt(20)),
     maxH |-> FSub(ph, FInt(20))])

\* the image-type tag passed to addImage in App.tsx
AppImageType(f) == IF f.type = "image/png" THEN "PNG" ELSE "JPEG"

\* generatePDF() of App.tsx, up to its first await.  The sizing is always
\* the fitting one, the margin 10 mm and the name images-to-pdf; the run
\* holds them as the runs of ImageToPdf.tsx hold their settings.
\* Len(runs) < maxRuns only bounds the model.
AppGeneratePDF(a4, maxRuns) ==
  IF Len(files) = 0
  THEN /\ Step("appGeneratePDF", 0, 0, "empty")
       /\ UNCHANGED <<collection, sortOrder, isLoading, timers, objectUrls, config,
                      generation, selectedPreview>>
  ELSE /\ Len(runs) < maxRuns
       /\ isConverting' = TRUE
       /\ runs' = Append(runs, [files |-> files, page |-> AppPageOf(a4),
                                imageSize |-> "fit", margin |-> 10,
                                fileName |-> "images-to-pdf",
                                i |-> 0, pc |-> "reading", pdf |-> NewPdf])
       /\ Step("appGeneratePDF", 0, 0, "none")
       /\ UNCHANGED <<collection, sortOrder, isLoading, timers, objectUrls, config,
                      progress, saved, selectedPreview>>

\* reader.onload of run r of App.tsx: the Image starts loading
AppReaderLoad(r) ==
  /\ r \in 1..Len(runs)
  /\ runs[r].pc = "reading"
  /\ runs' = [runs EXCEPT ![r].pc = "decoding"]
  /\ Step("appReaderLoad", r, 0, "none")
  /\ UNCHANGED <<collection, sortOrder, isLoading, timers, objectUrls, config,
                 isConverting, progress, saved, selectedPreview>>

\* the catch block of generatePDF in App.tsx
AppCatch(r, name) ==
  /\ isConverting' = FALSE
  /\ runs' = [runs EXCEPT ![r].pc = "failed"]
  /\ Step(name, r, 0, "error")
  /\ UNCHANGED <<collection, sortOrder, isLoading, timers, objectUrls, config,
                 progress, saved, selectedPreview>>

\* reader.onerror of run r of App.tsx
AppReaderError(r) ==
  /\ r \in 1..Len(runs)
  /\ runs[r].pc = "reading"
  /\ AppCatch(r, "appReaderError")

\* img.onerror of run r of App.tsx
AppImageError(r) ==
  /\ r \in 1..Len(runs)
  /\ runs[r].pc = "decoding"
  /\ AppCatch(r, "appImageError")

\* img.onload of run r of App.tsx: the image is fitted and placed, on a new
\* page unless it is the first; then the next file is read or, after the
\* last, the save is scheduled
AppImageLoad(r) ==
  /\ r \in 1..Len(runs)
  /\ runs[r].pc = "decoding"
  /\ Step("appImageLoad", r, 0, "none")
  /\ UNCHANGED <<collection, sortOrder, isLoading, timers, objectUrls, config,
                 isConverting, progress, saved, selectedPreview>>
  /\ LET run  == runs[r]
         file == run.files[run.i + 1]
         rect == Place(run.page, "fit", file.w, file.h)
         pdf2 == PlaceOnPdf(run.pdf, run.i,
                            [data |-> file, type |-> AppImageType(file),
                             x |-> rect.x, y |-> rect.y, w |-> rect.w, h |-> rect.h])
     IN  runs' = [runs EXCEPT ![r].pdf = pdf2,
                              ![r].i = run.i + 1,
                              ![r].pc = IF run.i + 1 < Len(run.files)
                                        THEN "reading" ELSE "waiting"]

\* the timeout set after the loop in App.tsx: pdf.save("images-to-pdf.pdf")
AppSaveTimeout(r) ==
  /\ r \in 1..Len(runs)
  /\ runs[r].pc = "waiting"
  /\ saved' = Append(saved, [name |-> <<"images-to-pdf", ".pdf">>,
                             pages |-> runs[r].pdf, run |-> r])
  /\ isConverting' = FALSE
  /\ runs' = [runs EXCEPT ![r].pc = "done"]
  /\ Step("appSaveTimeout", r, 0, "none")
  /\ UNCHANGED <<collection, sortOrder, isLoading, timers, objectUrls, config,
                 progress, selectedPreview>>

\* the file input and the drop zone, the Clear All button (rendered with at
\* least one entry), the remove buttons and the Generate button (rendered
\* with at least one entry, disabled while converting) of App.tsx with the
\* callbacks of the run it starts
AppNext ==
  \/ \E cands \in AppPicks : AppHandleFiles(cands)
  \/ Len(previews) > 0 /\ AppClear
  \/ \E idx \in 0..(Len(previews) - 1) : AppRemove(idx)
  \/ \E a4 \in JsPdfA4 :
       Len(previews) > 0 /\ ~isConverting /\ AppGeneratePDF(a4, MaxAppRuns)
  \/ \E r \in 1..MaxAppRuns : AppReaderLoad(r)
  \/ \E r \in 1..MaxAppRuns : AppReaderError(r)
  \/ \E r \in 1..MaxAppRuns : AppImageLoad(r)
  \/ \E r \in 1..MaxAppRuns : AppImageError(r)
  \/ \E r \in 1..MaxAppRuns : AppSaveTimeout(r)

SpecApp == Init /\ [][AppNext]_vars

\* the values the settings are changed to while a run goes on: one other
\* than the initial one for each control
EditPageSizes == {"a3"}
EditOrientations == {"landscape"}
EditImageSizes == {"fill"}
EditMargins == {MinMargin}
EditFileNames == {"scan"}

\* a run from the Generate button with the settings edited before and
\* during it
EditNext ==
  \/ \E cands \in EditPicks : HandleFiles(cands, MaxEditPending, MaxEditUrls)
  \/ AddTimeout
  \/ ClickSort
  \/ \E v \in EditPageSizes : SetPageSize(v)
  \/ \E v \in EditOrientations : SetOrientation(v)
  \/ \E v \in EditImageSizes : SetImageSize(v)
  \/ \E v \in EditFileNames : SetFileName(v)
  \/ \E v \in EditMargins : SetMargin(v)
  \/ ClickGenerate(MaxEditRuns)
  \/ \E r \in 1..MaxEditRuns : ReaderLoad(r)
  \/ \E r \in 1..MaxEditRuns : ReaderError(r)
  \/ \E r \in 1..MaxEditRuns : ImageLoad(r)
  \/ \E r \in 1..MaxEditRuns : ImageError(r)
  \/ \E r \in 1..MaxEditRuns : SaveTimeout(r)

SpecEdit == Init /\ [][EditNext]_vars

\* a FileReader reports load or error, an Image reports load or error and
\* the stretch after it runs, and a timeout fires
UiFairness ==
  \A r \in 1..MaxUiRuns :
    /\ WF_vars(ReaderError(r) \/ ReaderLoad(r))
    /\ WF_vars(ImageError(r) \/ AddImageError(r) \/ ImageLoad(r))
    /\ WF_vars(SaveTimeout(r) \/ SaveError(r))

SpecUiFair == SpecUi /\ UiFairness

(***************************************************************************)
(* Properties.  op' names the handler a step ran, so a property of one     *)
(* handler is a property of the steps with that op'.                       *)
(***************************************************************************)
AcceptedTypes == {"image/jpeg", "image/png", "image/webp", "image/gif"}

RECURSIVE Accepted(_)
\* the candidates of an accepted type, in their order
Accepted(cands) ==
  IF cands = <<>> THEN <<>>
  ELSE IF Head(cands).type \in AcceptedTypes
       THEN <<Head(cands)>> \o Accepted(Tail(cands))
       ELSE Accepted(Tail(cands))

Reverse(s) == [i \in 1..Len(s) |-> s[Len(s) + 1 - i]]

\* s without its k-th element, k counted from 1
Without(s, k) == [x \in 1..(Len(s) - 1) |-> IF x < k THEN s[x] ELSE s[x + 1]]

\* where the entry holding URL u stands in ps
Pos(ps, u) == CHOOSE i \in 1..Len(ps) : ps[i].url = u

FilesOf(ps) == [i \in 1..Len(ps) |-> ps[i].file]

\* C1: when an Add completes, the collection is the collection before it
\* followed by the candidates of type image/jpeg, image/png, image/webp or
\* image/gif in their original order, and by nothing else: rejected
\* candidates add nothing and no prior entry is replaced or dropped.
C1_AddAppendsAccepted ==
  [][op'.name = "addTimeout" =>
       LET acc == Accepted(Head(timers))
       IN  /\ files' = files \o acc
           /\ Len(previews') = Len(previews) + Len(acc)
           /\ SubSeq(previews', 1, Len(previews)) = previews
           /\ \A k \in 1..Len(acc) :
                /\ previews'[Len(previews) + k].file = acc[k]
                /\ previews'[Len(previews) + k].name = acc[k].name]_vars

\* an Add of mixed candidates, some accepted and some rejected, has completed
\* on a collection that was not empty
C1_Witness ==
  /\ op.name = "addTimeout"
  /\ op.b >= 1
  /\ op.a > op.b
  /\ Len(previews) > op.b

\* C2: Reorder(i, j) with 0 <= i, j < n removes element i and reinserts it
\* at position j: the length stays n, element i of the input stands at
\* position j of the result, and the other elements keep their relative
\* order (so the result is a permutation of the input).
C2_ReorderMoves ==
  [][op'.name = "reorderImages" =>
       LET i == op'.a
           j == op'.b
       IN  /\ Len(previews') = Len(previews)
           /\ previews'[j + 1] = previews[i + 1]
           /\ Without(previews', j + 1) = Without(previews, i + 1)
           /\ Len(files') = Len(files)
           /\ files'[j + 1] = files[i + 1]
           /\ Without(files', j + 1) = Without(files, i + 1)]_vars

\* the first of three entries has been moved to the end
C2_Witness ==
  /\ op.name = "reorderImages"
  /\ op.a = 0
  /\ op.b = 2
  /\ Len(previews) = 3
  /\ previews[1].name # previews[2].name
  /\ previews[2].name # previews[3].name

\* C3: in a fresh session with entries b.png, a.jpg, c.gif added in that
\* order, one Sort yields a.jpg, b.png, c.gif and a following Reorder(2, 0)
\* yields c.gif, a.jpg, b.png.
C3_Scenario ==
  /\ scenario = "sorted" => Names(previews) = <<"a.jpg", "b.png", "c.gif">>
  /\ scenario = "reordered" => Names(previews) = <<"c.gif", "a.jpg", "b.png">>

\* C4 as stated: Sort toggles its direction on every invocation, and the
\* second of two Sorts in succession leaves the exact reverse of the order
\* the first one left.
C4_SortMirrorsExactly ==
  [][op'.name = "sortImages" =>
       /\ sortOrder' # sortOrder
       /\ op.name = "sortImages" => previews' = Reverse(previews)]_vars

\* C4, amended: Sort toggles its direction on every invocation, and the
\* second of two Sorts in succession leaves the names in the reverse of the
\* order the first one left, entries of the same name keeping their relative
\* order; the entries themselves are exactly reversed when no two of them
\* have the same name.
C4_SortMirrorsNames ==
  [][op'.name = "sortImages" =>
       /\ sortOrder' # sortOrder
       /\ op.name = "sortImages" =>
            /\ Names(previews') = Reverse(Names(previews))
            /\ Urls(previews') = Urls(previews)
            /\ \A x, y \in 1..Len(previews) :
                 x < y /\ previews[x].name = previews[y].name
                   => Pos(previews', previews[x].url) < Pos(previews', previews[y].url)
            /\ (\A x, y \in 1..Len(previews) :
                  x # y => previews[x].name # previews[y].name)
                 => previews' = Reverse(previews)]_vars

\* a second Sort in succession has run on three entries, two of one name
C4_Witness ==
  /\ op.name = "sortImages"
  /\ op.a = 1
  /\ Len(previews) = 3
  /\ \E x, y \in 1..3 : x # y /\ previews[x].name = previews[y].name
  /\ \E x, y \in 1..3 : previews[x].name # previews[y].name

\* C5: after a Sort, in either direction, the entries are the entries from
\* before it, ordered by name under localeCompare in the direction the Sort
\* switched to, and entries whose names compare equal stand in the relative
\* order they had before.
C5_SortStable ==
  [][op'.name = "sortImages" =>
       /\ Len(previews') = Len(previews)
       /\ Urls(previews') = Urls(previews)
       /\ \A x \in 1..Len(previews) : previews'[Pos(previews', previews[x].url)] = previews[x]
       /\ \A x, y \in 1..Len(previews') :
            x < y => IF sortOrder' = "asc"
                     THEN LocaleCompare(previews'[x].name, previews'[y].name) <= 0
                     ELSE LocaleCompare(previews'[x].name, previews'[y].name) >= 0
       /\ \A x, y \in 1..Len(previews) :
            x < y /\ LocaleCompare(previews[x].name, previews[y].name) = 0
              => Pos(previews', previews[x].url) < Pos(previews', previews[y].url)
       /\ files' = FilesOf(previews')]_vars

\* a Sort has run on three entries of which two have the same name, the one
\* with the later URL standing first: an order they had before the Sort,
\* not one the Sort could have put them in
C5_Witness ==
  /\ op.name = "sortImages"
  /\ Len(previews) = 3
  /\ \E x, y \in 1..3 :
       /\ x < y
       /\ previews[x].name = previews[y].name
       /\ previews[x].url > previews[y].url
  /\ \E x, y \in 1..3 : previews[x].name # previews[y].name

\* the images placed so far by the runs laid out with the "fit" policy, each
\* with the page and the margin of its run
FitImages ==
  UNION {UNION {{[img |-> runs[r].pdf[p][k], page |-> runs[r].page,
                  margin |-> runs[r].margin] : k \in 1..Len(runs[r].pdf[p])} :
                  p \in 1..Len(runs[r].pdf)} :
           r \in {q \in 1..Len(runs) : runs[q].imageSize = "fit"}}

\* the width and the height of a decoded image in mm, at 96 pixels to the inch
NativeW(img) == FMul(FInt(img.data.w), pxToMm)
NativeH(img) == FMul(FInt(img.data.h), pxToMm)

\* C6: with the fit policy, for every image size, page size, orientation
\* and margin in 0..50, the image is never enlarged: finalW is at most the
\* native width in mm and finalH at most the native height in mm.
C6_FitNeverUpscales ==
  \A e \in FitImages :
    /\ FLe(e.img.w, NativeW(e.img))
    /\ FLe(e.img.h, NativeH(e.img))

\* a fit image larger than a page without margin has been placed, shrunk
C6_Witness ==
  \E e \in FitImages :
    /\ FLt(e.img.w, NativeW(e.img))
    /\ FLt(e.img.h, NativeH(e.img))
    /\ e.margin = 0

\* 10^-12 mm
Tiny == FDiv(FInt(1), FMul(FInt(1000000), FInt(1000000)))

\* x = (pageWidth - finalW) / 2 and y = (pageHeight - finalH) / 2, the page
\* being the one of the run, swapped for landscape
Centered(e) ==
  /\ FEq(FMul(e.img.x, FInt(2)), FSub(e.page.pageWidth, e.img.w))
  /\ FEq(FMul(e.img.y, FInt(2)), FSub(e.page.pageHeight, e.img.h))

\* C7 as stated: with the fit policy the image is centered on the page, and
\* x and y are >= 0 for every image size, page size, orientation and margin
\* in 0..50.
C7_FitCentersNonNegative ==
  \A e \in FitImages :
    /\ Centered(e)
    /\ FGe(e.img.x, FZero)
    /\ FGe(e.img.y, FZero)

\* C7, amended: with the fit policy the image is centered on the page; x and
\* y are >= 0 for every margin in 1..50, and with margin 0, where rounding
\* can leave the scaled image wider or higher than the page by one unit in
\* the last place, they are above -10^-12 mm.
C7_FitCentersWithinRounding ==
  \A e \in FitImages :
    /\ Centered(e)
    /\ e.margin >= 1 => FGe(e.img.x, FZero) /\ FGe(e.img.y, FZero)
    /\ e.margin = 0 => FGt(e.img.x, FNeg(Tiny)) /\ FGt(e.img.y, FNeg(Tiny))

\* a fit image that fills the width of a page without margin has been
\* placed, its x below 0
C7_Witness ==
  \E e \in FitImages :
    /\ e.margin = 0
    /\ FLt(e.img.x, FZero)
    /\ FGt(e.img.y, FZero)

\* C8: the document a run over n >= 1 entries saves has n pages, page k
\* holding the image of entry k and nothing else: the first image went onto
\* the page the document came with and every later one onto a page added
\* for it.
C8_PagePerEntry ==
  \A d \in 1..Len(saved) :
    LET doc == saved[d]
        entries == runs[doc.run].files
    IN  /\ Len(entries) >= 1
        /\ Len(doc.pages) = Len(entries)
        /\ \A k \in 1..Len(entries) :
             /\ Len(doc.pages[k]) = 1
             /\ doc.pages[k][1].data = entries[k]

\* a document of two pages with different images has been saved
C8_Witness ==
  \E d \in 1..Len(saved) :
    /\ Len(saved[d].pages) = 2
    /\ saved[d].pages[1][1].data # saved[d].pages[2][1].data

\* C9: GeneratePdf invoked with zero entries shows the empty-selection
\* notice and changes nothing: no run starts, nothing is saved, and
\* isConverting, progress, the entries and the configuration stay as they
\* were.
C9_EmptyInputRejected ==
  [][op'.name = "generatePDF" /\ Len(files) = 0 =>
       /\ notice' = "empty"
       /\ UNCHANGED <<files, previews, isConverting, progress, runs, saved, config,
                      sortOrder, isLoading, timers, objectUrls, selectedPreview>>]_vars

\* generatePDF has just been called on an empty collection in a session
\* that had saved a document before
C9_Witness ==
  /\ op.name = "generatePDF"
  /\ notice = "empty"
  /\ files = <<>>
  /\ ~isConverting
  /\ saved # <<>>

\* C10: every object URL made by Add is revoked at most once, and the URLs
\* made and not yet revoked are those held by the current entries, each by
\* one entry; so Remove revokes the URL of the removed entry and no other,
\* Clear revokes those of the entries it drops, and right after Clear no
\* URL made so far is left unrevoked.
C10_UrlsReleasedOnce ==
  /\ \A u \in 1..Len(objectUrls) : objectUrls[u] <= 1
  /\ {u \in 1..Len(objectUrls) : objectUrls[u] = 0} = Urls(previews)
  /\ \A x, y \in 1..Len(previews) : x # y => previews[x].url # previews[y].url
  /\ op.name = "clear" => \A u \in 1..Len(objectUrls) : objectUrls[u] = 1

\* an entry has just been removed, its URL revoked, with two entries left
C10_Witness ==
  /\ op.name = "removeImage"
  /\ Len(previews) = 2
  /\ \E u \in 1..Len(objectUrls) : objectUrls[u] = 1

\* C11: Remove(index) with 0 <= index < length leaves the collection without
\* the entry at that index: the length goes down by exactly one, the entries
\* before the index stay where they were, every later entry moves left by
\* one, so the remaining entries keep their relative order; the raw-file
\* list changes in the same way.
C11_RemoveShiftsLeft ==
  [][op'.name = "removeImage" /\ op'.a \in 0..(Len(previews) - 1) =>
       LET k == op'.a + 1
       IN  /\ thrown' = "none"
           /\ Len(previews') = Len(previews) - 1
           /\ \A x \in 1..Len(previews') :
                previews'[x] = IF x < k THEN previews[x] ELSE previews[x + 1]
           /\ Len(files') = Len(files) - 1
           /\ \A x \in 1..Len(files') :
                files'[x] = IF x < k THEN files[x] ELSE files[x + 1]]_vars

\* the middle one of three entries has been removed: the two left have
\* different names and stand in the order in which they were added
C11_Witness ==
  /\ op.name = "removeImage"
  /\ op.a = 1
  /\ thrown = "none"
  /\ Len(previews) = 2
  /\ previews[1].name # previews[2].name
  /\ previews[1].url < previews[2].url

\* C12: Remove(index) with index < 0 or index >= length is a no-op: it
\* raises no error, releases no handle and leaves the entries and the
\* raw-file list as they were.
C12_RemoveOutOfRangeNoOp ==
  [][op'.name = "removeImage" /\ op'.a \notin 0..(Len(previews) - 1) =>
       /\ thrown' = "none"
       /\ objectUrls' = objectUrls
       /\ previews' = previews
       /\ files' = files]_vars

\* C13: Clear, from any reachable state, leaves the entry collection and the
\* raw-file list empty and leaves page size, orientation, sizing policy,
\* margin and file name as they were.
C13_ClearEmptiesKeepsConfig ==
  [][op'.name = "clear" =>
       /\ previews' = <<>>
       /\ files' = <<>>
       /\ pageSize' = pageSize
       /\ orientation' = orientation
       /\ imageSize' = imageSize
       /\ margin' = margin
       /\ fileName' = fileName]_vars

\* Clear has just dropped an entry while every setting was off its initial
\* value
C13_Witness ==
  /\ op.name = "clear"
  /\ op.a >= 1
  /\ previews = <<>>
  /\ files = <<>>
  /\ pageSize # "a4"
  /\ orientation # "portrait"
  /\ imageSize # "fit"
  /\ margin # 10
  /\ fileName # "images-to-pdf"

\* C14: when the read or the decode of an entry of a run fails, the run ends
\* there: it is Failed, isConverting is false, progress is 0 and the generic
\* notice is shown; the entry and the entries after it are not placed, and
\* a Failed run stays as it is and never has a document saved.
C14_DecodeFailureAborts ==
  [][/\ op'.name \in {"readerError", "imageError"} =>
          LET r == op'.a
          IN  /\ runs'[r].pc = "failed"
              /\ runs'[r].i = runs[r].i
              /\ runs'[r].pdf = runs[r].pdf
              /\ isConverting' = FALSE
              /\ progress' = 0
              /\ notice' = "error"
              /\ saved' = saved
     /\ \A r \in 1..Len(runs) :
          runs[r].pc = "failed" =>
            /\ runs'[r] = runs[r]
            /\ \A d \in 1..Len(saved') : saved'[d].run # r]_vars

\* the decode of the second of two entries has just failed, the first being
\* placed already; nothing was saved
C14_Witness ==
  /\ op.name = "imageError"
  /\ notice = "error"
  /\ Len(runs[op.a].files) = 2
  /\ runs[op.a].i = 1
  /\ Len(runs[op.a].pdf[1]) = 1
  /\ runs[op.a].pc = "failed"
  /\ saved = <<>>

\* C15: every error of a run, in reading, decoding, placing or the final
\* save, is caught by generatePDF and turned into the generic notice: after
\* it no exception has escaped, the notice is shown, the run is Failed and
\* isConverting is false, so the trigger is enabled again.
C15_ErrorsCaught ==
  [][op'.name \in {"readerError", "imageError", "addImageError", "saveError"} =>
       /\ thrown' = "none"
       /\ notice' = "error"
       /\ runs'[op'.a].pc = "failed"
       /\ isConverting' = FALSE]_vars

\* run r is Converting: started and neither Done nor Failed
Converting(r) == r \in 1..Len(runs) /\ runs[r].pc \notin {"done", "failed"}
RunDone(r) == r \in 1..Len(runs) /\ runs[r].pc = "done"
RunFailed(r) == r \in 1..Len(runs) /\ runs[r].pc = "failed"

\* the documents saved for run r
SavedOf(r) == {d \in 1..Len(saved) : saved[d].run = r}

\* C16: a run goes from Idle to Converting and from there to Done or to
\* Failed and nowhere else, a document is saved for it exactly once if it is
\* Done and never otherwise, and, the read and decode callbacks firing,
\* every run that is Converting gets to Done or Failed, with isConverting
\* false and progress 0 then.
C16_RunStateMachine ==
  /\ [][\A r \in 1..MaxUiRuns :
          /\ RunDone(r) => RunDone(r)'
          /\ RunFailed(r) => RunFailed(r)'
          /\ r > Len(runs) /\ r <= Len(runs') => Converting(r)'
          /\ Cardinality(SavedOf(r))' = IF RunDone(r)' THEN 1 ELSE 0]_vars
  /\ \A r \in 1..MaxUiRuns :
       Converting(r) ~> ((RunDone(r) \/ RunFailed(r)) /\ ~isConverting /\ progress = 0)

\* C17: the pages of a saved document are the entries of the collection in
\* the order they had when its run was started: the run takes the files of
\* that moment, keeps them whatever is added, removed, moved, sorted or
\* cleared meanwhile, and the document saved has their images page by page.
C17_PagesInInvocationOrder ==
  [][/\ op'.name = "generatePDF" /\ Len(runs') > Len(runs) =>
          /\ runs'[Len(runs')].files = files
          /\ runs'[Len(runs')].files = FilesOf(previews)
     /\ \A r \in 1..Len(runs) : runs'[r].files = runs[r].files
     /\ op'.name = "saveTimeout" =>
          LET doc == saved'[Len(saved')]
          IN  /\ Len(saved') = Len(saved) + 1
              /\ doc.run = op'.a
              /\ [k \in 1..Len(doc.pages) |-> doc.pages[k][1].data] = runs[op'.a].files]_vars

\* a document of two pages has been saved after the two entries were
\* exchanged during its run: the collection holds them in the other order
C17_Witness ==
  /\ op.name = "saveTimeout"
  /\ Len(saved[Len(saved)].pages) = 2
  /\ Len(files) = 2
  /\ files[1] # files[2]
  /\ files[1] = saved[Len(saved)].pages[2][1].data
  /\ files[2] = saved[Len(saved)].pages[1][1].data

\* C18: while isConverting, no Add, Remove, Reorder, Sort or Clear changes
\* the entry collection.
C18_NoMutationWhileConverting ==
  [][isConverting => previews' = previews]_vars

\* the runs in flight: reading, decoding or waiting for the save
InFlight == {r \in 1..Len(runs) : runs[r].pc \in {"reading", "decoding", "waiting"}}

\* C19: at most one run is in flight at any time, and while one is, from its
\* start to the save after the delay or to its failure, isConverting is
\* true, which disables the trigger; so a run starts only when none is in
\* flight.
C19_OneRunInFlight ==
  /\ Cardinality(InFlight) <= 1
  /\ InFlight # {} => isConverting
  /\ \A r \in InFlight : r = Len(runs)

\* a second run is in flight, started after the first was Done
C19_Witness ==
  /\ Len(runs) = 2
  /\ runs[1].pc = "done"
  /\ runs[2].pc = "decoding"
  /\ isConverting

\* C20: after any sequence of Add, Remove, Reorder, Sort and Clear, Adds
\* pending or not, the entry list and the raw-file list have the same
\* length and the file of entry i is raw file i, for every i.
C20_Lockstep ==
  /\ Len(previews) = Len(files)
  /\ \A i \in 1..Len(previews) : previews[i].file = files[i]

\* two entries of two files stand in the other order than they were added
\* in, while an Add is pending
C20_Witness ==
  /\ Len(previews) = 2
  /\ timers # <<>>
  /\ files[1] # files[2]
  /\ previews[1].url > previews[2].url
  /\ op.name \in {"reorderImages", "sortImages", "removeImage"}

\* the number of images on the pages of a document
RECURSIVE Placed(_)
Placed(pdf) == IF pdf = <<>> THEN 0 ELSE Len(Head(pdf)) + Placed(Tail(pdf))

\* C21: within a run the entries are handled one after the other: while
\* entry k is read or decoded, entries 1..k-1 and no others are placed in
\* the document, and the run goes on to the read of the next entry only in
\* the step that places the entry it has just decoded; so no two entries
\* of a run are ever being decoded at once.
C21_SequentialDecoding ==
  [][\A r \in 1..Len(runs') :
       /\ runs'[r].pc \in {"reading", "decoding"} =>
            /\ runs'[r].i < Len(runs'[r].files)
            /\ Placed(runs'[r].pdf) = runs'[r].i
       /\ r <= Len(runs) /\ runs'[r].i # runs[r].i =>
            /\ op'.name = "imageLoad"
            /\ op'.a = r
            /\ runs[r].pc = "decoding"
            /\ runs'[r].i = runs[r].i + 1
            /\ Placed(runs'[r].pdf) = Placed(runs[r].pdf) + 1
       /\ r <= Len(runs) /\ runs[r].pc = "reading" /\ runs'[r].pc = "decoding" =>
            /\ op'.name = "readerLoad"
            /\ runs'[r].i = runs[r].i]_vars

\* the second entry of a run is being decoded, the first being placed and
\* the second not
C21_Witness ==
  \E r \in 1..Len(runs) :
    /\ runs[r].pc = "decoding"
    /\ runs[r].i = 1
    /\ Len(runs[r].files) = 2
    /\ Placed(runs[r].pdf) = 1
    /\ op.name = "readerLoad"

\* C22: during a run over n entries, whenever progress is round(k/n*100)
\* for a k in 1..n, k entries are decoded and placed; so progress is 100
\* only when all n entries are placed.
C22_ProgressCountsPlaced ==
  \A r \in InFlight :
    \A k \in 1..Len(runs[r].files) :
      progress = ProgressAfter(k - 1, Len(runs[r].files)) => Placed(runs[r].pdf) >= k

\* the images placed so far by the runs laid out with the given policy, each
\* with the page and the margin of its run
PolicyImages(policy) ==
  UNION {UNION {{[img |-> runs[r].pdf[p][k], page |-> runs[r].page,
                  margin |-> runs[r].margin] : k \in 1..Len(runs[r].pdf[p])} :
                  p \in 1..Len(runs[r].pdf)} :
           r \in {q \in 1..Len(runs) : runs[q].imageSize = policy}}

FillImages == PolicyImages("fill")
OriginalImages == PolicyImages("original")

FAbs(a) == IF FLt(a, FZero) THEN FNeg(a) ELSE a

\* a and b differ by 10^-12 mm at most
Within(a, b) == FLe(FAbs(FSub(a, b)), Tiny)

\* a and b differ by 10^-12 of the larger at most
WithinRel(a, b) == FLe(FAbs(FSub(a, b)), FMul(Tiny, FMax2(FAbs(a), FAbs(b))))

\* C23 as stated: with the fill policy finalW >= maxW and finalH >= maxH,
\* with equality in at least one of the two, finalW * imgH = finalH * imgW,
\* and the image is centered on the page.
C23_FillCoversExactly ==
  \A e \in FillImages :
    /\ FGe(e.img.w, e.page.maxW)
    /\ FGe(e.img.h, e.page.maxH)
    /\ FEq(e.img.w, e.page.maxW) \/ FEq(e.img.h, e.page.maxH)
    /\ FEq(FMul(e.img.w, NativeH(e.img)), FMul(e.img.h, NativeW(e.img)))
    /\ Centered(e)

\* C23, amended: with the fill policy the image is centered on the page and
\* covers the printable rectangle up to rounding: finalW >= maxW - 10^-12 mm
\* and finalH >= maxH - 10^-12 mm, one of the two is within 10^-12 mm of its
\* bound, and finalW * imgH and finalH * imgW agree to 10^-12 of their size.
C23_FillCoversWithinRounding ==
  \A e \in FillImages :
    /\ FGe(e.img.w, FSub(e.page.maxW, Tiny))
    /\ FGe(e.img.h, FSub(e.page.maxH, Tiny))
    /\ Within(e.img.w, e.page.maxW) \/ Within(e.img.h, e.page.maxH)
    /\ WithinRel(FMul(e.img.w, NativeH(e.img)), FMul(e.img.h, NativeW(e.img)))
    /\ Centered(e)

\* a fill image has been placed that covers the height of the printable
\* rectangle with its width running over the page, x below 0, while its
\* height came out below maxH by rounding
C23_Witness ==
  \E e \in FillImages :
    /\ FLt(e.img.h, e.page.maxH)
    /\ FGt(e.img.w, e.page.pageWidth)
    /\ FLt(e.img.x, FZero)

\* C24 as stated: with the fit policy finalW <= pageWidth - 2*margin and
\* finalH <= pageHeight - 2*margin, x >= margin and y >= margin, and
\* finalW * imgH = finalH * imgW.
C24_FitInsideExactly ==
  \A e \in FitImages :
    /\ FLe(e.img.w, e.page.maxW)
    /\ FLe(e.img.h, e.page.maxH)
    /\ FGe(e.img.x, FInt(e.margin))
    /\ FGe(e.img.y, FInt(e.margin))
    /\ FEq(FMul(e.img.w, NativeH(e.img)), FMul(e.img.h, NativeW(e.img)))

\* C24, amended: with the fit policy the image is inside the printable
\* rectangle up to rounding: finalW <= maxW + 10^-12 mm, finalH <= maxH +
\* 10^-12 mm, x >= margin - 10^-12 mm and y >= margin - 10^-12 mm, and
\* finalW * imgH and finalH * imgW agree to 10^-12 of their size.
C24_FitInsideWithinRounding ==
  \A e \in FitImages :
    /\ FLe(e.img.w, FAdd(e.page.maxW, Tiny))
    /\ FLe(e.img.h, FAdd(e.page.maxH, Tiny))
    /\ FGe(e.img.x, FSub(FInt(e.margin), Tiny))
    /\ FGe(e.img.y, FSub(FInt(e.margin), Tiny))
    /\ WithinRel(FMul(e.img.w, NativeH(e.img)), FMul(e.img.h, NativeW(e.img)))

\* a fit image has been shrunk to the width of the printable rectangle of a
\* page with a margin, and came out wider than it by rounding, x below the
\* margin
C24_Witness ==
  \E e \in FitImages :
    /\ e.margin >= 1
    /\ FGt(e.img.w, e.page.maxW)
    /\ FLt(e.img.x, FInt(e.margin))
    /\ FLt(e.img.h, e.page.maxH)

\* the image of e exceeds the printable rectangle at its native size
Exceeds(e) ==
  \/ FGt(NativeW(e.img), e.page.maxW)
  \/ FGt(NativeH(e.img), e.page.maxH)

\* C25: with the original policy the image is centered, at its native size
\* when that fits in the printable rectangle and otherwise scaled by
\* min(maxW/w, maxH/h, 1); the rectangle (x, y, finalW, finalH) is the one
\* the fit policy computes for the same image and page.
C25_OriginalIsFit ==
  \A e \in OriginalImages :
    LET fit == Place(e.page, "fit", e.img.data.w, e.img.data.h)
        ratio == FMin3(FDiv(e.page.maxW, NativeW(e.img)),
                       FDiv(e.page.maxH, NativeH(e.img)), FInt(1))
    IN  /\ Centered(e)
        /\ ~Exceeds(e) => FEq(e.img.w, NativeW(e.img)) /\ FEq(e.img.h, NativeH(e.img))
        /\ Exceeds(e) => /\ FEq(e.img.w, FMul(NativeW(e.img), ratio))
                          /\ FEq(e.img.h, FMul(NativeH(e.img), ratio))
        /\ FEq(e.img.x, fit.x)
        /\ FEq(e.img.y, fit.y)
        /\ FEq(e.img.w, fit.w)
        /\ FEq(e.img.h, fit.h)

\* an image that exceeds the printable rectangle has been placed with the
\* original policy, shrunk
C25_Witness ==
  \E e \in OriginalImages :
    /\ Exceeds(e)
    /\ FLt(e.img.w, NativeW(e.img))
    /\ FLt(e.img.h, NativeH(e.img))

\* the steps of a generation run
RunSteps ==
  {"generatePDF", "readerLoad", "readerError", "imageLoad", "imageError", "saveTimeout"}

\* the image a run placed last
LastImage(pdf) == pdf[Len(pdf)][Len(pdf[Len(pdf)])]

\* C26: no step of a run, from the invocation to Done or Failed, changes
\* the entries, the raw files, the sort direction or the layout settings;
\* and the run lays out and names its document with the settings and the
\* file name of the moment it was invoked, whatever they are changed to
\* meanwhile.
C26_RunKeepsSessionUsesSnapshot ==
  [][/\ op'.name \in RunSteps =>
          UNCHANGED <<files, previews, sortOrder, pageSize, orientation, imageSize,
                      margin, fileName>>
     /\ op'.name = "generatePDF" /\ Len(runs') > Len(runs) =>
          LET run == runs'[Len(runs')]
          IN  /\ run.page = PageOf(Settings)
              /\ run.imageSize = imageSize
              /\ run.margin = margin
              /\ run.fileName = fileName
     /\ \A r \in 1..Len(runs) :
          /\ runs'[r].page = runs[r].page
          /\ runs'[r].imageSize = runs[r].imageSize
          /\ runs'[r].margin = runs[r].margin
          /\ runs'[r].fileName = runs[r].fileName
     /\ op'.name = "imageLoad" =>
          LET run  == runs[op'.a]
              file == run.files[run.i + 1]
              rect == Place(run.page, run.imageSize, file.w, file.h)
              img  == LastImage(runs'[op'.a].pdf)
          IN  /\ img.x = rect.x
              /\ img.y = rect.y
              /\ img.w = rect.w
              /\ img.h = rect.h
     /\ op'.name = "saveTimeout" =>
          saved'[Len(saved')].name = <<runs[op'.a].fileName, ".pdf">>]_vars

\* a document has just been saved under the initial file name and laid out
\* for the initial page with the initial policy, every setting having been
\* changed during its run
C26_Witness ==
  /\ op.name = "saveTimeout"
  /\ saved[Len(saved)].name = <<"images-to-pdf", ".pdf">>
  /\ fileName = "scan"
  /\ runs[op.a].imageSize = "fit"
  /\ imageSize = "fill"
  /\ runs[op.a].margin = 10
  /\ margin = 0
  /\ runs[op.a].page = PageOf([pageSize |-> "a4", orientation |-> "portrait",
                               margin |-> 10])
  /\ pageSize = "a3"
  /\ orientation = "landscape"

\* the URLs that were made and are held by no entry now
Gone == {u \in 1..Len(objectUrls) : u \notin Urls(previews)}

\* C27: in the component of App.tsx as in that of ImageToPdf.tsx, the
\* preview URL of every entry that has left the collection, by remove, by
\* clear or by an add that replaces the collection, has been revoked.
C27_ReleasedOnEveryPath ==
  \A u \in Gone : objectUrls[u] >= 1

\* C28: an Add completes after its call, on the collection as it is then:
\* the call itself changes no entry; the steps between call and completion
\* leave the pending Adds as they are; the completion puts the accepted
\* files of the Add called first behind the entries of that moment, each
\* with a URL never used before, so that no entry taken out meanwhile comes
\* back and none put in or moved meanwhile is lost; overlapping Adds
\* complete in the order of their calls.
C28_AddCompletesInOrder ==
  [][/\ op'.name = "handleFiles" =>
          /\ UNCHANGED <<files, previews, objectUrls>>
          /\ Len(timers') = Len(timers) + 1
          /\ SubSeq(timers', 1, Len(timers)) = timers
     /\ op'.name \notin {"handleFiles", "addTimeout"} => timers' = timers
     /\ op'.name = "addTimeout" =>
          LET acc == Accepted(Head(timers))
              n   == Len(previews)
          IN  /\ timers' = Tail(timers)
              /\ Len(previews') = n + Len(acc)
              /\ Len(files') = n + Len(acc)
              /\ \A x \in 1..n : previews'[x] = previews[x] /\ files'[x] = files[x]
              /\ \A k \in 1..Len(acc) :
                   /\ files'[n + k] = acc[k]
                   /\ previews'[n + k].file = acc[k]
                   /\ previews'[n + k].url > Len(objectUrls)
                   /\ \A x \in 1..(n + k - 1) : previews'[x].url < previews'[n + k].url
              /\ \A u \in 1..Len(objectUrls) : objectUrls'[u] = objectUrls[u]
              /\ \A u \in 1..Len(objectUrls) :
                   objectUrls[u] >= 1 => u \notin Urls(previews')]_vars

\* the earlier of two overlapping Adds has completed, the later one still
\* pending with other files, on a collection out of which an entry was
\* taken before
C28_Witness ==
  /\ op.name = "addTimeout"
  /\ op.b >= 1
  /\ Len(timers) = 1
  /\ Accepted(timers[1]) # <<>>
  /\ Accepted(timers[1])[1] # previews[Len(previews)].file
  /\ \E u \in 1..Len(objectUrls) : objectUrls[u] >= 1

\* C29: isLoading is true exactly while an Add has been called and has not
\* completed, with overlapping Adds as with one.
C29_LoadingTracksPending ==
  isLoading <=> timers # <<>>

\* C30: whenever an entry is selected for preview, it is an entry of the
\* collection: selectedPreview is null or 0 <= selectedPreview <
\* previews.length, after any sequence of Add, Remove, Reorder, Sort, Clear,
\* openPreview, closePreview and navigatePreview.
C30_SelectionInRange ==
  selectedPreview # NoSelection => selectedPreview[1] \in 0..(Len(previews) - 1)

====
